---- MODULE Spec2Model ----
(***************************************************************************)
(* A model of lp (cespare/lp): the process lister (lister.list and         *)
(* loadProcess), the parent/child aggregation (fillChildDesc), the filter  *)
(* (filter.include), the table writer (tableWriter.append/write), the      *)
(* status record parser (lister.parseStat), the directory entry counter    *)
(* (direntCount) and the duration formatter (formatDuration).              *)
(*                                                                         *)
(* Strings whose bytes matter (cells, names, patterns) are sequences of    *)
(* one-character strings; strings only compared for equality (user names)  *)
(* are TLA+ strings.                                                       *)
(***************************************************************************)
EXTENDS Integers, Sequences, FiniteSets, TLC

VARIABLES
    \* lister.list / fillChildDesc
    pc,        \* position of the running function
    fis,       \* the /proc directory listing still to be loaded (f.Readdir(0))
    ps,        \* the list of process records ([]*process)
    byPID,     \* fillChildDesc's map pid -> record (an index into ps)
    rem,       \* fillChildDesc's current generation (indices into ps)
    gen,       \* number of generations walked so far
    ret,       \* what lister.list returned: "none", "ok" or "error"
    needTree,  \* l.needCols.has(colNChild | colNDesc)
    needCmd,   \* l.needCols.has(colCmdline)
    needFDs,   \* l.needCols.has(colNFDs)
    loaded,    \* history: the records loadProcess returned, in order
    loadlog,   \* history: each loadProcess call, what it met and what it returned
    nopen,     \* files the lister has opened and not closed
    \* filter.include
    flt,       \* the filter
    fproc,     \* the process record include is applied to
    fres,      \* the result of include: "none", "true" or "false"
    \* tableWriter
    tw,        \* the tableWriter: termWidth, opts, widths, cells
    out,       \* the lines of the last write
    prevOut,   \* the lines of the write before it
    prevTW,    \* the tableWriter as it was when the last operation began
    lastOp,    \* the last tableWriter operation
    arg,       \* the cells passed to the last append
    nwrites,   \* writes since the last append or termWidth change (capped at 2)
    panicked,  \* a panic was raised
    \* lister.parseStat
    statFile,  \* the bytes read from /proc/<pid>/stat
    sin,       \* history: what the record was made of
    sp,        \* the process record parseStat fills
    sres,      \* how parseStat ended: "none", "ok", "error" or "panic"
    lst,       \* the lister: clockTick, pageSize, uptime
    \* direntCount
    ddir,      \* the directory: its entries, in the order getdents64 gives them
    drest,     \* the entries the open file has not returned yet
    dbuf,      \* b, the scratch buffer
    dpos,      \* i, where the next read writes
    dend,      \* end, the number of bytes read
    dpc,       \* "read" (in the read loop), "scan", "done", "error"
    dcount,    \* the count returned
    dpassed,   \* history: the buffer passed to the running call
    dcounts,   \* history: the counts returned by the calls so far
    \* formatDuration
    durIn,     \* d, the duration to format
    durOut,    \* the string returned
    durPc,     \* "call" before the call, "done" after it
    \* lister.readAll
    rfile,     \* the bytes of the file f
    rbuf,      \* l.buf: its length and the bytes of its backing array
    rout,      \* the bytes returned
    rerr,      \* the error returned: "nil", "EIO"
    rpc,       \* "call" before the call, "done" after it
    \* process.write
    wcols,     \* cols, the columns main asked for
    wproc      \* the process record written last

listVars == <<pc, fis, ps, byPID, rem, gen, ret, needTree, needCmd, needFDs, loaded,
             loadlog, nopen>>
filterVars == <<flt, fproc, fres>>
tableVars == <<tw, out, prevOut, prevTW, lastOp, arg, nwrites, panicked>>
statVars == <<statFile, sin, sp, sres, lst>>
direntVars == <<ddir, drest, dbuf, dpos, dend, dpc, dcount, dpassed, dcounts>>
durVars == <<durIn, durOut, durPc>>
readVars == <<rfile, rbuf, rout, rerr, rpc>>
writeVars == <<wcols, wproc>>
vars == <<listVars, filterVars, tableVars, statVars, direntVars, durVars, readVars, writeVars>>

----------------------------------------------------------------------------
(* Bounds of the model *)

MaxProcs == 3

MaxPid == 4

----------------------------------------------------------------------------
(* Generic helpers *)

Min(a, b) == IF a < b THEN a ELSE b

RECURSIVE SumSeq(_)
SumSeq(s) == IF s = <<>> THEN 0 ELSE Head(s) + SumSeq(Tail(s))

\* n copies of the character c
RECURSIVE Repeat(_, _)
Repeat(c, n) == IF n <= 0 THEN <<>> ELSE <<c>> \o Repeat(c, n - 1)

----------------------------------------------------------------------------
(* type process *)

\* The zero value of a process record (var p process), with pid set.
NewProcess(pid) ==
    [pid |-> pid, name |-> <<>>, cmdline |-> <<>>, ppid |-> 0, pgid |-> 0,
     rss |-> 0, uptime |-> 0, utime |-> 0, stime |-> 0, cutime |-> 0,
     cstime |-> 0, cpuTime |-> 0, nthreads |-> 0, nfds |-> 0, nchild |-> 0,
     ndesc |-> 0, user |-> ""]

----------------------------------------------------------------------------
(* fillChildDesc *)

\* for _, p := range ps { byPID[p.pid] = p }: a later record with the same
\* pid overwrites an earlier one.
BuildByPID(list) ==
    [pid \in {list[i].pid : i \in DOMAIN list} |->
        CHOOSE i \in DOMAIN list :
            /\ list[i].pid = pid
            /\ \A j \in DOMAIN list : list[j].pid = pid => j <= i]

\* The first loop over ps, from record i on: the parent's nchild++.
RECURSIVE Pass1From(_, _, _)
Pass1From(list, m, i) ==
    IF i > Len(list) THEN list
    ELSE IF list[i].ppid \in DOMAIN m
         THEN Pass1From([list EXCEPT ![m[list[i].ppid]].nchild = @ + 1], m, i + 1)
         ELSE Pass1From(list, m, i + 1)

\* A first loop that marks the parent in nthreads as well.
Pass1Threads(list, m) ==
    LET counted == Pass1From(list, m, 1) IN
    [i \in DOMAIN list |->
        IF counted[i].nchild > 0 THEN [counted[i] EXCEPT !.nthreads = @ + 1]
        ELSE counted[i]]

Pass1SelfCount(list, m) ==
    [i \in DOMAIN list |->
        IF list[i].ppid \in DOMAIN m
        THEN [list[i] EXCEPT !.nchild = @ + 1] ELSE list[i]]

Pass1(list, m) == Pass1From(list, m, 1)

\* One generation of the second loop: for _, p := range rem, from position k
\* on, with next the generation built so far.
RECURSIVE GenerationFrom(_, _, _, _, _)
GenerationFrom(list, m, r, k, next) ==
    IF k > Len(r) THEN [ps |-> list, next |-> next]
    ELSE LET p == list[r[k]] IN
         IF p.ppid \notin DOMAIN m
         THEN GenerationFrom(list, m, r, k + 1, next)
         ELSE GenerationFrom([list EXCEPT ![m[p.ppid]].ndesc = @ + 1], m, r,
                             k + 1, Append(next, m[p.ppid]))

\* A walk that counts the parents but does not go on to the grandparents.
GenerationNoNext(list, m, r) ==
    [ps |-> GenerationFrom(list, m, r, 1, <<>>).ps, next |-> <<>>]

Generation(list, m, r) == GenerationFrom(list, m, r, 1, <<>>)

\* The walk is cut after MaxGen generations: a list whose parent links hold
\* a cycle never empties rem.
MaxGen == MaxProcs + 2

FillBuild ==
    /\ pc = "fill"
    /\ byPID' = BuildByPID(ps)
    /\ ps' = Pass1(ps, BuildByPID(ps))
    /\ rem' = [i \in 1..Len(ps) |-> i]
    /\ gen' = 0
    /\ pc' = "walk"
    /\ UNCHANGED <<fis, ret, needTree, needCmd, needFDs, loaded, loadlog, nopen>>
    /\ UNCHANGED <<filterVars, tableVars, statVars, direntVars, durVars, readVars, writeVars>>

FillGeneration ==
    /\ pc = "walk"
    /\ Len(rem) > 0
    /\ gen < MaxGen
    /\ LET g == Generation(ps, byPID, rem) IN
         /\ ps' = g.ps
         /\ rem' = g.next
    /\ gen' = gen + 1
    /\ UNCHANGED <<pc, fis, byPID, ret, needTree, needCmd, needFDs, loaded, loadlog, nopen>>
    /\ UNCHANGED <<filterVars, tableVars, statVars, direntVars, durVars, readVars, writeVars>>

FillReturn ==
    /\ pc = "walk"
    /\ Len(rem) = 0
    /\ pc' = "filled"
    /\ UNCHANGED <<fis, ps, byPID, rem, gen, ret, needTree, needCmd, needFDs, loaded, loadlog, nopen>>
    /\ UNCHANGED <<filterVars, tableVars, statVars, direntVars, durVars, readVars, writeVars>>

----------------------------------------------------------------------------
(* Inputs of fillChildDesc: lists of up to MaxProcs records with distinct    *)
(* pids (the names of /proc are distinct) and any parent pid, present in   *)
(* the list or not.                                                        *)

Pids == 1..MaxPid

PPids == 0..MaxPid

TreeRecord(pid, ppid) == [NewProcess(pid) EXCEPT !.ppid = ppid]

\* The lists of n records with distinct pids.
TreeLists(n) ==
    {[i \in 1..n |-> TreeRecord(pids[i], ppids[i])] :
        pids \in {q \in [1..n -> Pids] : \A a, b \in 1..n : a # b => q[a] # q[b]},
        ppids \in [1..n -> PPids]}

----------------------------------------------------------------------------
(* type filter, filter.include *)

MaxFPid == 2

\* regexp.MatchString for a pattern of literal characters: an unanchored
\* search, the pattern occurs somewhere in s.
MatchString(pattern, s) ==
    \E k \in 0..Len(s) :
        /\ k + Len(pattern) <= Len(s)
        /\ \A i \in 1..Len(pattern) : s[k + i] = pattern[i]

\* A *regexp.Regexp: nil, or a compiled pattern.
NilRe == [set |-> FALSE, re |-> <<>>]

Re(pattern) == [set |-> TRUE, re |-> pattern]

\* The zero value of a filter (var f filter): nothing requested.
NoFilter ==
    [name |-> NilRe, cmd |-> NilRe, pid |-> 0, ppid |-> 0, pgid |-> 0,
     thisPID |-> 0, user |-> ""]

\* include without its last case.
IncludeNoPgid(f, p) ==
    IF f.thisPID = p.pid THEN FALSE
    ELSE IF f.user # "" /\ f.user # p.user THEN FALSE
    ELSE IF f.name.set /\ ~MatchString(f.name.re, p.name) THEN FALSE
    ELSE IF f.cmd.set /\ ~MatchString(f.cmd.re, p.cmdline) THEN FALSE
    ELSE IF f.pid # 0 /\ f.pid # p.pid THEN FALSE
    ELSE IF f.ppid # 0 /\ f.ppid # p.ppid THEN FALSE
    ELSE IF f.ppid # 0 /\ f.ppid # p.ppid THEN FALSE
    ELSE TRUE

\* include comparing pgid also when none was requested.
IncludeZeroPgid(f, p) ==
    IF f.thisPID = p.pid THEN FALSE
    ELSE IF f.user # "" /\ f.user # p.user THEN FALSE
    ELSE IF f.name.set /\ ~MatchString(f.name.re, p.name) THEN FALSE
    ELSE IF f.cmd.set /\ ~MatchString(f.cmd.re, p.cmdline) THEN FALSE
    ELSE IF f.pid # 0 /\ f.pid # p.pid THEN FALSE
    ELSE IF f.ppid # 0 /\ f.ppid # p.ppid THEN FALSE
    ELSE IF f.ppid # 0 /\ f.ppid # p.ppid THEN FALSE
    ELSE IF f.pgid # p.pgid THEN FALSE
    ELSE TRUE

\* The switch of include: the first case whose condition holds returns
\* false; the parent-PID case stands twice.
Include(f, p) ==
    IF f.thisPID = p.pid THEN FALSE
    ELSE IF f.user # "" /\ f.user # p.user THEN FALSE
    ELSE IF f.name.set /\ ~MatchString(f.name.re, p.name) THEN FALSE
    ELSE IF f.cmd.set /\ ~MatchString(f.cmd.re, p.cmdline) THEN FALSE
    ELSE IF f.pid # 0 /\ f.pid # p.pid THEN FALSE
    ELSE IF f.ppid # 0 /\ f.ppid # p.ppid THEN FALSE
    ELSE IF f.ppid # 0 /\ f.ppid # p.ppid THEN FALSE
    ELSE IF f.pgid # 0 /\ f.pgid # p.pgid THEN FALSE
    ELSE TRUE

\* The filters main builds: without -all, thisPID is the pid of lp and user
\* the current user; with -all both stay zero.
FilterOwners ==
    {[thisPID |-> 0, user |-> ""]}
        \cup {[thisPID |-> t, user |-> "alice"] : t \in 1..MaxFPid}

NamePatterns == {NilRe, Re(<<"a", "b">>)}

CmdPatterns == {NilRe, Re(<<"a">>)}

Filters ==
    {[name |-> n, cmd |-> c, pid |-> a, ppid |-> b, pgid |-> g,
      thisPID |-> o.thisPID, user |-> o.user] :
        n \in NamePatterns, c \in CmdPatterns, a \in 0..MaxFPid,
        b \in 0..MaxFPid, g \in 0..MaxFPid, o \in FilterOwners}

ProcNames == {<<"x", "a", "b">>, <<"b", "a">>}

ProcCmdlines == {<<>>, <<"b", "a">>}

ProcUsers == {"alice", ""}

FilterProcs ==
    {[NewProcess(a) EXCEPT !.ppid = b, !.pgid = g, !.user = u, !.name = n,
                           !.cmdline = c] :
        a \in 1..MaxFPid, b \in 0..MaxFPid, g \in 0..MaxFPid, u \in ProcUsers,
        n \in ProcNames, c \in ProcCmdlines}

FilterInclude ==
    /\ fres = "none"
    /\ fres' = IF Include(flt, fproc) THEN "true" ELSE "false"
    /\ UNCHANGED <<flt, fproc>>
    /\ UNCHANGED <<listVars, tableVars, statVars, direntVars, durVars, readVars, writeVars>>

----------------------------------------------------------------------------
(* colConfs, type tableWriter *)

MaxRows == 2

\* colConfs in the order of the column constants (colPID = 1 << 0, ...,
\* colCmdline = 1 << 16): a set of columns is a set of positions 1..17.
ColConfs ==
    <<[name |-> <<"p", "i", "d">>, rightAlign |-> TRUE],
      [name |-> <<"p", "p", "i", "d">>, rightAlign |-> TRUE],
      [name |-> <<"u", "s", "e", "r">>, rightAlign |-> FALSE],
      [name |-> <<"n", "a", "m", "e">>, rightAlign |-> FALSE],
      [name |-> <<"p", "g", "i", "d">>, rightAlign |-> TRUE],
      [name |-> <<"r", "s", "s">>, rightAlign |-> TRUE],
      [name |-> <<"u", "p", "t", "i", "m", "e">>, rightAlign |-> TRUE],
      [name |-> <<"u", "t", "i", "m", "e">>, rightAlign |-> TRUE],
      [name |-> <<"s", "t", "i", "m", "e">>, rightAlign |-> TRUE],
      [name |-> <<"c", "u", "t", "i", "m", "e">>, rightAlign |-> TRUE],
      [name |-> <<"c", "s", "t", "i", "m", "e">>, rightAlign |-> TRUE],
      [name |-> <<"c", "p", "u", "t", "i", "m", "e">>, rightAlign |-> TRUE],
      [name |-> <<"n", "t", "h", "r", "e", "a", "d", "s">>, rightAlign |-> TRUE],
      [name |-> <<"n", "f", "d", "s">>, rightAlign |-> TRUE],
      [name |-> <<"n", "c", "h", "i", "l", "d">>, rightAlign |-> TRUE],
      [name |-> <<"n", "d", "e", "s", "c">>, rightAlign |-> TRUE],
      [name |-> <<"c", "m", "d", "l", "i", "n", "e">>, rightAlign |-> FALSE]>>

numCols == 17

\* columnOpts bit
rightAlign == 1

pad == <<" ", " ">>

\* The positions of cols in canonical order.
RECURSIVE ColsInOrder(_, _)
ColsInOrder(cols, col) ==
    IF col > numCols THEN <<>>
    ELSE IF col \in cols THEN <<col>> \o ColsInOrder(cols, col + 1)
         ELSE ColsInOrder(cols, col + 1)

\* newTableWriter(cols), with termWidth() returning width.
newTableWriter(cols, width) ==
    LET order == ColsInOrder(cols, 1)
        n == Cardinality(cols)
    IN [termWidth |-> width,
        opts |-> [i \in 1..n |->
                     IF ColConfs[order[i]].rightAlign THEN rightAlign ELSE 0],
        widths |-> [i \in 1..n |-> Len(ColConfs[order[i]].name)],
        cells |-> <<[i \in 1..n |-> ColConfs[order[i]].name]>>]

\* A loop that records the length of the last cell of each column.
RECURSIVE AppendWidthsLast(_, _, _)
AppendWidthsLast(widths, cells, i) ==
    IF i > Len(cells) THEN widths
    ELSE AppendWidthsLast([widths EXCEPT ![i] = Len(cells[i])], cells, i + 1)

\* The loop of append over the cells, from cell i on.
RECURSIVE AppendWidths(_, _, _)
AppendWidths(widths, cells, i) ==
    IF i > Len(cells) THEN widths
    ELSE AppendWidths(
             IF Len(cells[i]) > widths[i]
             THEN [widths EXCEPT ![i] = Len(cells[i])] ELSE widths,
             cells, i + 1)

\* append that counts the cells only after the widths were updated.
appendLateCheck(t, cells) ==
    LET k == Min(Len(cells), Len(t.opts))
        w == AppendWidths(t.widths, SubSeq(cells, 1, k), 1)
    IN IF Len(cells) # Len(t.opts)
       THEN [tw |-> [t EXCEPT !.widths = w], panic |-> TRUE]
       ELSE [tw |-> [t EXCEPT !.widths = w, !.cells = Append(@, cells)],
             panic |-> FALSE]

\* tableWriter.append: the writer after the call, and whether it panicked.
append(t, cells) ==
    IF Len(cells) # Len(t.opts)
    THEN [tw |-> t, panic |-> TRUE]
    ELSE [tw |-> [t EXCEPT !.widths = AppendWidths(t.widths, cells, 1),
                           !.cells = Append(@, cells)],
          panic |-> FALSE]

\* The inner loop of write over the cells of one row, from cell j on, with
\* b the bytes built so far.
RECURSIVE RenderCells(_, _, _, _)
RenderCells(t, row, j, b) ==
    IF j > Len(row) THEN b
    ELSE LET b1 == IF j > 1 THEN b \o pad ELSE b
             w == t.widths[j]
             cell == row[j]
             b2 == IF t.opts[j] = rightAlign
                   THEN b1 \o Repeat(" ", w - Len(cell)) \o cell
                   ELSE IF j < Len(row)
                        THEN b1 \o cell \o Repeat(" ", w - Len(cell))
                        ELSE b1 \o cell
         IN RenderCells(t, row, j + 1, b2)

\* A row rendered with its last column padded like the others.
RenderRowPadLast(t, row) ==
    LET n == Len(row) IN
    IF n > 0 /\ t.opts[n] # rightAlign
    THEN RenderCells(t, row, 1, <<>>) \o Repeat(" ", t.widths[n] - Len(row[n]))
    ELSE RenderCells(t, row, 1, <<>>)

RenderRow(t, row) == RenderCells(t, row, 1, <<>>)

\* Trimming decided by the terminal width alone.
TrimAlways(t, b) == t.termWidth > 3

\* if i == 0 { trim = ... }, with b the rendered header row.
TrimDecision(t, b) == t.termWidth > 3 /\ Len(b) < t.termWidth

\* The outer loop of write, from row i on: lines is what was written so far,
\* one bw.Write per row.
RECURSIVE WriteRows(_, _, _, _)
WriteRows(t, i, trim, lines) ==
    IF i > Len(t.cells) THEN lines
    ELSE LET b == RenderRow(t, t.cells[i])
             trim1 == IF i = 1 THEN TrimDecision(t, b) ELSE trim
             b1 == IF trim1 /\ Len(b) > t.termWidth
                   THEN SubSeq(b, 1, t.termWidth - 3) \o <<".", ".", ".">>
                   ELSE b
         IN WriteRows(t, i + 1, trim1, Append(lines, b1 \o <<"\n">>))

\* write that shortens the writer's own termWidth when it trims a row.
writeShrinking(t) ==
    LET lines == WriteRows(t, 1, FALSE, <<>>) IN
    [tw |-> IF \E r \in DOMAIN lines : Len(lines[r]) - 1 < Len(RenderRow(t, t.cells[r]))
            THEN [t EXCEPT !.termWidth = @ - 3] ELSE t,
     out |-> lines]

\* tableWriter.write: the writer after the call and the lines written.
write(t) == [tw |-> t, out |-> WriteRows(t, 1, FALSE, <<>>)]

\* Inputs: the column sets, terminal widths and cells the writer is run on.
\* {name}, {pid, name}, {name, pgid}, {pid, ppid, name}
ColSets == {{4}, {1, 4}, {4, 5}, {1, 2, 4}}

TermWidths == {0, 3, 4, 5, 9, 10, 16}

NumCells == {<<"3">>, <<"1", "2", "3", "4", "5">>}

TextCells == {<<>>, <<"d">>, <<"u", "v", "w", "x", "y", "z">>}

\* The rows with one cell per column of t.
GoodRows(t) ==
    {r \in [1..Len(t.opts) -> NumCells \cup TextCells] :
        \A j \in 1..Len(t.opts) :
            r[j] \in (IF t.opts[j] = rightAlign THEN NumCells ELSE TextCells)}

\* Rows with a cell too few or a cell too many.
BadRows(t) ==
    {SubSeq(r, 1, Len(r) - 1) : r \in GoodRows(t)}
        \cup {Append(r, c) : r \in GoodRows(t), c \in TextCells}

\* main appends every row and then writes; the test writes again after
\* changing termWidth. No row is appended after a write.
Append_ ==
    /\ ~panicked
    /\ lastOp \in {"new", "append"}
    /\ Len(tw.cells) <= MaxRows
    /\ \E cells \in GoodRows(tw) \cup BadRows(tw) :
          LET r == append(tw, cells) IN
            /\ tw' = r.tw
            /\ panicked' = r.panic
            /\ arg' = cells
    /\ prevTW' = tw
    /\ lastOp' = "append"
    /\ UNCHANGED <<out, prevOut, nwrites>>
    /\ UNCHANGED <<listVars, filterVars, statVars, direntVars, durVars, readVars, writeVars>>

Write_ ==
    /\ ~panicked
    /\ nwrites < 2
    /\ LET r == write(tw) IN
         /\ tw' = r.tw
         /\ out' = r.out
    /\ prevOut' = out
    /\ prevTW' = tw
    /\ lastOp' = "write"
    /\ nwrites' = nwrites + 1
    /\ UNCHANGED <<arg, panicked>>
    /\ UNCHANGED <<listVars, filterVars, statVars, direntVars, durVars, readVars, writeVars>>

\* buf.Reset(); tw.termWidth = width
SetTermWidth ==
    /\ ~panicked
    /\ lastOp = "write"
    /\ \E width \in TermWidths \ {tw.termWidth} :
          tw' = [tw EXCEPT !.termWidth = width]
    /\ out' = <<>>
    /\ prevOut' = <<>>
    /\ prevTW' = tw
    /\ lastOp' = "setwidth"
    /\ nwrites' = 0
    /\ UNCHANGED <<arg, panicked>>
    /\ UNCHANGED <<listVars, filterVars, statVars, direntVars, durVars, readVars, writeVars>>

----------------------------------------------------------------------------
(* lister.list, lister.loadProcess *)

MaxEntries == 2

\* What the reads of one /proc/<pid> directory give at the moment loadProcess
\* makes them: the stat file may be gone (the process exited after the
\* listing) or fail positional parsing; cmdline and fd may be gone; opening
\* fd may be denied.
StatOutcomes == {"ok", "vanished", "malformed"}

CmdOutcomes == {"ok", "vanished"}

FdOutcomes == {"ok", "vanished", "eperm"}

ListPPids == 0..(MaxEntries + 1)

\* A permission error returned as it is.
parseFDsStrict(p, fd) ==
    IF fd # "ok" THEN [err |-> fd, p |-> p]
    ELSE [err |-> "nil", p |-> [p EXCEPT !.nfds = 3]]

\* The records of the list kept at load time only if the filter includes
\* them.
CollectIncluded(list, f, p) == IF Include(f, p) THEN Append(list, p) ELSE list

\* lister.parseFDs: a permission error on opening the fd directory gives
\* nfds = -1 and no error; the count of an open directory is direntCount's.
parseFDs(p, fd) ==
    IF fd = "eperm" THEN [err |-> "nil", p |-> [p EXCEPT !.nfds = -1]]
    ELSE IF fd # "ok" THEN [err |-> fd, p |-> p]
         ELSE [err |-> "nil", p |-> [p EXCEPT !.nfds = 3]]

\* ps = append(ps, p): every loaded record is kept, whatever the filter.
Collect(list, f, p) == Append(list, p)

\* The files each parse function leaves open when it returns, given what
\* opening its file gave: parseStat defers f.Close() after a successful
\* os.Open; parseCmdline and parseFDs open f and return, on every path,
\* without closing it.
StatHeld(st) == 0

CmdlineHeld(c) == IF c = "ok" THEN 1 ELSE 0

FDsHeld(fd) == IF fd = "ok" THEN 1 ELSE 0

\* lister.loadProcess on one directory entry: the error returned ("nil" for
\* none) and the record.
\* held is the number of files the call opened and did not close.
loadProcess(fi, env, needC, needF) ==
    IF ~fi.numeric
    THEN [err |-> "errNotAProcess", p |-> NewProcess(0), held |-> 0]
    ELSE LET p0 == [NewProcess(fi.pid) EXCEPT !.user = "alice"]
             h1 == StatHeld(env.stat)
         IN
         IF env.stat # "ok"
         THEN [err |-> env.stat, p |-> NewProcess(0), held |-> h1]
         ELSE LET p1 == [p0 EXCEPT !.ppid = env.ppid, !.pgid = 1, !.name = <<"a">>]
                  h2 == IF needC THEN h1 + CmdlineHeld(env.cmd) ELSE h1
              IN
              IF needC /\ env.cmd # "ok"
              THEN [err |-> env.cmd, p |-> NewProcess(0), held |-> h2]
              ELSE LET p2 == IF needC THEN [p1 EXCEPT !.cmdline = <<"a">>] ELSE p1 IN
                   IF ~needF THEN [err |-> "nil", p |-> p2, held |-> h2]
                   ELSE LET r == parseFDs(p2, env.fd)
                            h3 == h2 + FDsHeld(env.fd)
                        IN
                        IF r.err # "nil"
                        THEN [err |-> r.err, p |-> NewProcess(0), held |-> h3]
                        ELSE [err |-> "nil", p |-> r.p, held |-> h3]

\* What is kept of one loadProcess call: the entry, the ppid read (0 if stat
\* was not read), what opening cmdline and the fd directory gave ("unread"
\* if parseCmdline, parseFDs was not called), the error and the record
\* returned.
LogEntry(fi, env, needC, needF, r) ==
    LET statRead == fi.numeric /\ env.stat = "ok"
        cmdRead == statRead /\ needC
        fdRead == statRead /\ (needC => env.cmd = "ok") /\ needF
    IN [fi |-> fi, ppid |-> IF statRead THEN env.ppid ELSE 0,
        cmd |-> IF cmdRead THEN env.cmd ELSE "unread",
        fd |-> IF fdRead THEN env.fd ELSE "unread", err |-> r.err, p |-> r.p]

\* The last loop of list: the records the filter includes are moved to the
\* front, in order, and the list is cut after them.
RECURSIVE FilterFrom(_, _, _, _)
FilterFrom(list, f, k, i) ==
    IF k > Len(list) THEN SubSeq(list, 1, i)
    ELSE IF Include(f, list[k])
         THEN FilterFrom([list EXCEPT ![i + 1] = list[k]], f, k + 1, i + 1)
         ELSE FilterFrom(list, f, k + 1, i)

\* One iteration of the loop over fis.
LoadProcess ==
    /\ pc = "load"
    /\ fis # <<>>
    /\ \E st \in StatOutcomes, pp \in ListPPids, c \in CmdOutcomes, fd \in FdOutcomes :
          LET env == [stat |-> st, ppid |-> pp, cmd |-> c, fd |-> fd]
              r == loadProcess(Head(fis), env, needCmd, needFDs)
          IN /\ loadlog' = Append(loadlog, LogEntry(Head(fis), env, needCmd, needFDs, r))
             /\ nopen' = nopen + r.held
             /\ \/ /\ r.err = "errNotAProcess"
                   /\ fis' = Tail(fis)
                   /\ UNCHANGED <<pc, ps, ret, loaded>>
                \/ /\ r.err \notin {"nil", "errNotAProcess"}
                   /\ ret' = "error"
                   /\ ps' = <<>>
                   /\ pc' = "done"
                   /\ UNCHANGED <<fis, loaded>>
                \/ /\ r.err = "nil"
                   /\ ps' = Collect(ps, flt, r.p)
                   /\ loaded' = Append(loaded, r.p)
                   /\ fis' = Tail(fis)
                   /\ UNCHANGED <<pc, ret>>
    /\ UNCHANGED <<byPID, rem, gen, needTree, needCmd, needFDs>>
    /\ UNCHANGED <<filterVars, tableVars, statVars, direntVars, durVars, readVars, writeVars>>

\* if l.needCols.has(colNChild | colNDesc) { fillChildDesc(ps) }
LoadDone ==
    /\ pc = "load"
    /\ fis = <<>>
    /\ pc' = IF needTree THEN "fill" ELSE "filter"
    /\ UNCHANGED <<fis, ps, byPID, rem, gen, ret, needTree, needCmd, needFDs, loaded, loadlog, nopen>>
    /\ UNCHANGED <<filterVars, tableVars, statVars, direntVars, durVars, readVars, writeVars>>

FilterAndReturn ==
    /\ pc \in {"filled", "filter"}
    /\ ret = "none"
    /\ ps' = FilterFrom(ps, flt, 1, 0)
    /\ ret' = "ok"
    /\ pc' = "done"
    /\ UNCHANGED <<fis, byPID, rem, gen, needTree, needCmd, needFDs, loaded, loadlog, nopen>>
    /\ UNCHANGED <<filterVars, tableVars, statVars, direntVars, durVars, readVars, writeVars>>

\* The directory listings: entries that are not numbers (self, cpuinfo, ...)
\* and entries named by distinct pids.
ProcEntries ==
    {[numeric |-> FALSE, pid |-> 0]}
        \cup {[numeric |-> TRUE, pid |-> a] : a \in 1..MaxEntries}

Listings(n) ==
    {l \in [1..n -> ProcEntries] :
        \A a, b \in 1..n : (a # b /\ l[a].numeric /\ l[b].numeric) => l[a].pid # l[b].pid}

ListFilters ==
    {NoFilter, [NoFilter EXCEPT !.pid = 1],
     [NoFilter EXCEPT !.thisPID = 2, !.user = "alice"]}

\* needCols: whether the tree columns, cmdline and nfds are needed.
ListNeeds ==
    {[tree |-> FALSE, cmd |-> FALSE, fds |-> FALSE],
     [tree |-> TRUE, cmd |-> FALSE, fds |-> FALSE],
     [tree |-> TRUE, cmd |-> TRUE, fds |-> TRUE]}

----------------------------------------------------------------------------
(* Integer types and strconv, as the parse helpers use them *)

\* The width of int, int64, uint64, bytesize and time.Duration, and the
\* width of int32 and uint32. The program's 64 and 32 bits are modelled by
\* 16 and 8 bits: arithmetic wraps at the modelled width exactly as it wraps
\* at the real one, and the lister's clock tick and page size are scaled with
\* it (see Listers), so that what overflows in the program overflows here
\* and what cannot overflow there cannot here.
IntBits == 16

Int32Bits == 8

RECURSIVE Pow2(_)
Pow2(n) == IF n = 0 THEN 1 ELSE 2 * Pow2(n - 1)

\* A mathematical integer as an int64 (time.Duration, bytesize) holds it:
\* two's complement wrap-around.
Wrap(x) == ((x + Pow2(IntBits - 1)) % Pow2(IntBits)) - Pow2(IntBits - 1)

DigitChars == <<"0", "1", "2", "3", "4", "5", "6", "7", "8", "9">>

IsDigit(c) == \E i \in 1..10 : DigitChars[i] = c

DigitVal(c) == (CHOOSE i \in 1..10 : DigitChars[i] = c) - 1

\* The value of a run of decimal digits, most significant first.
RECURSIVE DigitsVal(_, _)
DigitsVal(b, acc) ==
    IF b = <<>> THEN acc ELSE DigitsVal(Tail(b), 10 * acc + DigitVal(Head(b)))

\* strconv.ParseUint(s, 10, bits): no sign, at least one digit, nothing but
\* digits, and a value that fits.
ParseUint(b, bits) ==
    IF b = <<>> \/ \E i \in DOMAIN b : ~IsDigit(b[i])
    THEN [err |-> TRUE, v |-> 0]
    ELSE LET v == DigitsVal(b, 0) IN
         IF v > Pow2(bits) - 1 THEN [err |-> TRUE, v |-> 0]
         ELSE [err |-> FALSE, v |-> v]

\* strconv.ParseInt(s, 10, bits) and strconv.Atoi: an optional sign, then as
\* ParseUint, within the signed range.
ParseInt(b, bits) ==
    LET signed == b # <<>> /\ b[1] \in {"+", "-"}
        neg == b # <<>> /\ b[1] = "-"
        d == IF signed THEN Tail(b) ELSE b
    IN IF d = <<>> \/ \E i \in DOMAIN d : ~IsDigit(d[i])
       THEN [err |-> TRUE, v |-> 0]
       ELSE LET v == DigitsVal(d, 0) IN
            IF (~neg /\ v > Pow2(bits - 1) - 1) \/ (neg /\ v > Pow2(bits - 1))
            THEN [err |-> TRUE, v |-> 0]
            ELSE [err |-> FALSE, v |-> IF neg THEN 0 - v ELSE v]

parseIntb(b) == ParseInt(b, IntBits)

parseInt32b(b) == ParseInt(b, Int32Bits)

parseUint32b(b) == ParseUint(b, Int32Bits)

parseUint64b(b) == ParseUint(b, IntBits)

\* The decimal digits of n >= 0.
RECURSIVE FormatUint(_)
FormatUint(n) ==
    IF n < 10 THEN <<DigitChars[n + 1]>>
    ELSE FormatUint(n \div 10) \o <<DigitChars[(n % 10) + 1]>>

\* strconv.FormatInt(n, 10)
FormatInt(n) == IF n < 0 THEN <<"-">> \o FormatUint(0 - n) ELSE FormatUint(n)

\* process.write, case int64: the cell of nfds, nchild or ndesc; -1 is shown
\* as "?".
Int64Cell(v) == IF v = -1 THEN <<"?">> ELSE FormatInt(v)

----------------------------------------------------------------------------
(* lister.parseStat *)

MaxExtra == 2

\* The first ')' instead of the last.
CommEndFirst(stat) ==
    IF \E i \in DOMAIN stat : stat[i] = ")"
    THEN (CHOOSE i \in DOMAIN stat : stat[i] = ")" /\ \A j \in 1..(i - 1) : stat[j] # ")") - 1
    ELSE -1

\* The tick count taken for a duration, the clock tick left out.
TicksRaw(x, l) == Wrap(x)

\* bytes.IndexByte and bytes.LastIndexByte: the 0-based position of the
\* first (last) c in s, -1 when there is none.
IndexByte(s, c) ==
    IF \E i \in DOMAIN s : s[i] = c
    THEN (CHOOSE i \in DOMAIN s : s[i] = c /\ \A j \in 1..(i - 1) : s[j] # c) - 1
    ELSE -1

LastIndexByte(s, c) ==
    IF \E i \in DOMAIN s : s[i] = c
    THEN (CHOOSE i \in DOMAIN s : s[i] = c /\ \A j \in (i + 1)..Len(s) : s[j] # c) - 1
    ELSE -1

\* for stat[0] == ' ' { stat = stat[1:] }: indexing the empty slice panics.
RECURSIVE SkipSpaces(_)
SkipSpaces(stat) ==
    IF stat = <<>> THEN [panic |-> TRUE, stat |-> stat]
    ELSE IF Head(stat) = " " THEN SkipSpaces(Tail(stat))
         ELSE [panic |-> FALSE, stat |-> stat]

\* time.Duration(x) and bytesize(x) of an unsigned or signed integer: the
\* same bits read as an int64.
Duration(x) == Wrap(x)

\* time.Duration(x) * l.clockTick
Ticks(x, l) == Wrap(Duration(x) * l.clockTick)

\* The switch on col for a field b other than comm. res is "go" when the loop
\* continues.
ParseField(l, p, col, b) ==
    CASE col = 4 ->
           LET r == parseIntb(b) IN
           IF r.err THEN [res |-> "error", p |-> p]
           ELSE [res |-> "go", p |-> [p EXCEPT !.ppid = r.v]]
      [] col = 5 ->
           LET r == parseIntb(b) IN
           IF r.err THEN [res |-> "error", p |-> p]
           ELSE [res |-> "go", p |-> [p EXCEPT !.pgid = r.v]]
      [] col = 14 ->
           LET r == parseUint32b(b) IN
           IF r.err THEN [res |-> "error", p |-> p]
           ELSE [res |-> "go", p |-> [p EXCEPT !.utime = Ticks(r.v, l)]]
      [] col = 15 ->
           LET r == parseUint32b(b) IN
           IF r.err THEN [res |-> "error", p |-> p]
           ELSE [res |-> "go", p |-> [p EXCEPT !.stime = Ticks(r.v, l)]]
      [] col = 16 ->
           LET r == parseUint32b(b) IN
           IF r.err THEN [res |-> "error", p |-> p]
           ELSE [res |-> "go", p |-> [p EXCEPT !.cutime = Ticks(r.v, l)]]
      [] col = 17 ->
           LET r == parseUint32b(b) IN
           IF r.err THEN [res |-> "error", p |-> p]
           ELSE LET cstime == Ticks(r.v, l) IN
                [res |-> "go",
                 p |-> [p EXCEPT !.cstime = cstime,
                                 !.cpuTime = Wrap(Wrap(Wrap(p.utime + p.stime)
                                                       + p.cutime) + cstime)]]
      [] col = 20 ->
           LET r == parseInt32b(b) IN
           IF r.err THEN [res |-> "error", p |-> p]
           ELSE [res |-> "go", p |-> [p EXCEPT !.nthreads = r.v]]
      [] col = 22 ->
           LET r == parseUint64b(b) IN
           IF r.err THEN [res |-> "error", p |-> p]
           ELSE LET uptime == Wrap(l.uptime - Ticks(r.v, l)) IN
                [res |-> "go",
                 p |-> [p EXCEPT !.uptime = IF uptime < 0 THEN 0 ELSE uptime]]
      [] col = 24 ->
           LET r == parseInt32b(b) IN
           IF r.err THEN [res |-> "error", p |-> p]
           ELSE [res |-> "ok", p |-> [p EXCEPT !.rss = Wrap(Duration(r.v) * l.pageSize)]]
      [] OTHER -> [res |-> "go", p |-> p]

\* i := bytes.LastIndexByte(stat, ')')
CommEnd(stat) == LastIndexByte(stat, ")")

\* The name stat[1:i] of the comm field, i the position of the last ')'.
CommName(stat, i) == SubSeq(stat, 2, i)

\* The loop of parseStat from column col on, stat being what is left of the
\* record: res is "ok" (nil returned), "error" (an error returned) or "panic"
\* (an index or a slice bound out of range), p the record as it is then.
RECURSIVE parseStatFrom(_, _, _, _)
parseStatFrom(l, p, stat, col) ==
    LET sk == SkipSpaces(stat) IN
    IF sk.panic THEN [res |-> "panic", p |-> p]
    ELSE LET s == sk.stat IN
         IF col = 2
         THEN IF s[1] # "(" THEN [res |-> "error", p |-> p]
              ELSE LET i == CommEnd(s) IN
                   IF i < 1 THEN [res |-> "panic", p |-> p]
                   ELSE parseStatFrom(l, [p EXCEPT !.name = CommName(s, i)],
                                      SubSeq(s, i + 2, Len(s)), col + 1)
         ELSE LET i == IndexByte(s, " ") IN
              IF i < 0 THEN [res |-> "panic", p |-> p]
              ELSE LET r == ParseField(l, p, col, SubSeq(s, 1, i)) IN
                   IF r.res = "go"
                   THEN parseStatFrom(l, r.p, SubSeq(s, i + 1, Len(s)), col + 1)
                   ELSE r

parseStat(l, p, stat) == parseStatFrom(l, p, stat, 1)

\* The lister's fields parseStat reads. newLister sets clockTick to one
\* second divided by sysconf(_SC_CLK_TCK) and pageSize to os.Getpagesize();
\* getUptime gives a duration that is not negative. With durations counted
\* in milliseconds and sizes in KiB, the first lister is the one of
\* TestListerParseStat (10ms, 4096 bytes). needCols is the set of columns
\* main asked for, as positions in the column constants: pid, ppid and name,
\* or every column.
NeedSets == {{1, 2, 4}, 1..numCols}

Listers ==
    {[clockTick |-> c.t, pageSize |-> c.p, uptime |-> u, needCols |-> need] :
        c \in {[t |-> 10, p |-> 4], [t |-> 1, p |-> 16]}, u \in {0, 50, 6000},
        need \in NeedSets}

\* The numbers a status record carries in the columns parseStat consults.
StatNames ==
    {<<"a">>, <<"a", " ", "b">>, <<"m", "(", "a", ")", "n">>, <<")", "(">>,
     <<"a", ")", " ", "7", " ", "(", "b">>, <<>>}

StartTicks ==
    {0, 5, 197, (Pow2(IntBits - 1) \div 10) + 1, Pow2(IntBits - 1), Pow2(IntBits) - 1}

StatVals ==
    {[ppid |-> pp, pgid |-> 3, utime |-> t[1], stime |-> t[2], cutime |-> t[3],
      cstime |-> t[4], nthreads |-> 3, start |-> st, pages |-> t[5]] :
        pp \in {0, 12},
        t \in {<<0, 0, 0, 0, 0>>, <<77, 38, 5, 7, 60>>, <<1, 0, 2, 0, -1>>,
               <<Pow2(Int32Bits) - 1, Pow2(Int32Bits) - 1, Pow2(Int32Bits) - 1,
                 Pow2(Int32Bits) - 1, Pow2(Int32Bits - 1) - 1>>},
        st \in StartTicks}

BaseVals ==
    [ppid |-> 12, pgid |-> 3, utime |-> 77, stime |-> 38, cutime |-> 5,
     cstime |-> 7, nthreads |-> 3, start |-> 197, pages |-> 60]

ConsultedCols == {4, 5, 14, 15, 16, 17, 20, 22, 24}

\* Tokens no consulted column accepts: not a number, a number followed by a
\* letter, and a number out of the range of every integer type.
BadTokens == {<<"x">>, <<"1", "x">>, FormatInt(Pow2(IntBits))}

\* The token of column col >= 3 as the kernel prints it.
FieldToken(in, col) ==
    IF in.kind = "nonnum" /\ col = in.bad THEN in.badtok
    ELSE CASE col = 3 -> <<"S">>
           [] col = 4 -> FormatInt(in.vals.ppid)
           [] col = 5 -> FormatInt(in.vals.pgid)
           [] col = 14 -> FormatInt(in.vals.utime)
           [] col = 15 -> FormatInt(in.vals.stime)
           [] col = 16 -> FormatInt(in.vals.cutime)
           [] col = 17 -> FormatInt(in.vals.cstime)
           [] col = 20 -> FormatInt(in.vals.nthreads)
           [] col = 22 -> FormatInt(in.vals.start)
           [] col = 24 -> FormatInt(in.vals.pages)
           [] OTHER -> <<"0">>

RECURSIVE FieldsFrom(_, _)
FieldsFrom(in, col) ==
    IF col > in.ncols THEN <<>>
    ELSE <<" ">> \o FieldToken(in, col) \o FieldsFrom(in, col + 1)

\* The bytes of the status record described by in.
StatBytes(in) ==
    CASE in.kind = "empty" -> <<>>
      [] in.kind = "noopen" -> <<"7", " ">> \o in.name \o FieldsFrom(in, 3) \o in.trailer
      [] in.kind = "noclose" -> <<"7", " ", "(">> \o in.name \o FieldsFrom(in, 3) \o in.trailer
      [] in.ncols = 1 -> <<"7">> \o in.trailer
      [] OTHER -> <<"7", " ", "(">> \o in.name \o <<")">> \o FieldsFrom(in, 3) \o in.trailer

Trailers == {<<>>, <<"\n">>, <<" ">>}

StatInput(kind, name, vals, ncols, trailer, bad, badtok) ==
    [kind |-> kind, name |-> name, vals |-> vals, ncols |-> ncols,
     trailer |-> trailer, bad |-> bad, badtok |-> badtok]

\* Records of the kernel's form: 24 columns and at least one more.
WellFormedStats ==
    {StatInput("ok", n, v, 24 + e, <<"\n">>, 0, <<>>) :
        n \in StatNames, v \in StatVals, e \in 1..MaxExtra}

\* Records that end with column 24.
Exact24Stats ==
    {StatInput("exact24", <<"a">>, BaseVals, 24, t, 0, <<>>) : t \in Trailers}

MalformedStats ==
    {StatInput("empty", <<>>, BaseVals, 0, <<>>, 0, <<>>)}
        \cup {StatInput("short", <<"a">>, BaseVals, n, t, 0, <<>>) :
                 n \in 1..23, t \in Trailers}
        \cup {StatInput(k, <<"a">>, BaseVals, 24 + MaxExtra, <<"\n">>, 0, <<>>) :
                 k \in {"noopen", "noclose"}}
        \cup {StatInput("nonnum", <<"a">>, BaseVals, 24 + MaxExtra, <<"\n">>, c, t) :
                 c \in ConsultedCols, t \in BadTokens}
        \cup {StatInput("nonnum", <<"a">>, BaseVals, 24 + MaxExtra, <<"\n">>, c, <<"-", "1">>) :
                 c \in {14, 15, 16, 17, 22}}

StatInputs == WellFormedStats \cup Exact24Stats \cup MalformedStats

\* parseStat on the record read from /proc/<pid>/stat.
ParseStat ==
    /\ sres = "none"
    /\ LET r == parseStat(lst, sp, statFile) IN
          /\ sres' = r.res
          /\ sp' = r.p
    /\ UNCHANGED <<statFile, sin, lst>>
    /\ UNCHANGED <<listVars, filterVars, tableVars, direntVars, durVars, readVars, writeVars>>

----------------------------------------------------------------------------
(* direntCount *)

MaxDirents == 2

MaxCalls == 2

blockSize == 4096

\* unix.Dirent on linux: Ino uint64 at offset 0, Off int64 at 8, Reclen
\* uint16 at 16, Type uint8 at 18, Name from 19 on, NUL-terminated, the
\* record padded to a multiple of 8 bytes.
inoOff == 0

inoSize == 8

reclenOff == 16

reclenSize == 2

nameOff == 19

\* n bytes of value 0
Zeros(n) == [j \in 1..n |-> 0]

\* The size bytes of x >= 0, least significant first.
RECURSIVE LittleEndian(_, _)
LittleEndian(x, size) ==
    IF size = 0 THEN <<>> ELSE <<x % 256>> \o LittleEndian(x \div 256, size - 1)

\* The number that bytes, least significant first, stand for.
RECURSIVE LEValue(_)
LEValue(bytes) == IF bytes = <<>> THEN 0 ELSE Head(bytes) + 256 * LEValue(Tail(bytes))

\* The record length of a directory entry with this name.
Reclen(name) == ((nameOff + Len(name) + 1 + 7) \div 8) * 8

\* The bytes getdents64 writes for the directory entry d.
EncodeDirent(d) ==
    LET used == LittleEndian(d.ino, inoSize) \o LittleEndian(d.off, 8)
                    \o LittleEndian(Reclen(d.name), reclenSize) \o <<d.type>> \o d.name
    IN used \o Zeros(Reclen(d.name) - Len(used))

RECURSIVE EncodeDirents(_)
EncodeDirents(ds) ==
    IF ds = <<>> THEN <<>> ELSE EncodeDirent(Head(ds)) \o EncodeDirents(Tail(ds))

\* readInt: the size bytes at offset off, least significant first (the
\* little-endian number the code assembles), or not ok when b is too short.
readInt(b, off, size) ==
    IF Len(b) < off + size THEN [ok |-> FALSE, bytes |-> <<>>]
    ELSE [ok |-> TRUE, bytes |-> SubSeq(b, off + 1, off + size)]

direntReclen(buf) == readInt(buf, reclenOff, reclenSize)

direntIno(buf) == readInt(buf, inoOff, inoSize)

\* No inode number is taken for zero.
NeverZero(bytes) == FALSE

\* ino == 0
IsZero(bytes) == \A j \in DOMAIN bytes : bytes[j] = 0

\* The second loop of direntCount, buf being what is left to scan and count
\* the records counted so far.
RECURSIVE ScanFrom(_, _)
ScanFrom(buf, count) ==
    IF Len(buf) = 0 THEN count
    ELSE LET rl == direntReclen(buf) IN
         IF ~rl.ok \/ LEValue(rl.bytes) > Len(buf) THEN count
         ELSE LET reclen == LEValue(rl.bytes)
                  rec == SubSeq(buf, 1, reclen)
                  rest == SubSeq(buf, reclen + 1, Len(buf))
                  ino == direntIno(rec)
              IN IF ~ino.ok THEN count
                 ELSE IF IsZero(ino.bytes) THEN ScanFrom(rest, count)
                      ELSE ScanFrom(rest, count + 1)

\* A buffer grown only while it is shorter than a block.
GrowToBlock(b, i) == IF Len(b) < blockSize THEN b \o Zeros(blockSize) ELSE b

\* if len(b)-i < blockSize { b1 := make([]byte, len(b)+blockSize); copy(b1, b) }
Grow(b, i) == IF Len(b) - i < blockSize THEN b \o Zeros(blockSize) ELSE b

\* b with the bytes data written from offset i on.
WriteAt(b, i, data) ==
    SubSeq(b, 1, i) \o data \o SubSeq(b, i + Len(data) + 1, Len(b))

\* The numbers of entries one getdents64 call may return when space bytes
\* are free: at least one, and only whole records that fit.
RECURSIVE BytesOf(_, _)
BytesOf(ds, k) == IF k = 0 THEN 0 ELSE Reclen(ds[k].name) + BytesOf(ds, k - 1)

ReadSizes(ds, space) == {k \in 1..Len(ds) : BytesOf(ds, k) <= space}

\* One iteration of the read loop: the buffer is grown if fewer than
\* blockSize bytes are free, then unix.ReadDirent reads into b[i:]. The read
\* fails (the directory is gone, or no entry fits), or reaches the end of
\* the directory, or returns some entries.
DirentRead ==
    /\ dpc = "read"
    /\ LET b == Grow(dbuf, dpos)
           space == Len(b) - dpos
       IN \/ /\ drest # <<>>
             /\ \E k \in ReadSizes(drest, space) :
                   LET data == EncodeDirents(SubSeq(drest, 1, k)) IN
                   /\ dbuf' = WriteAt(b, dpos, data)
                   /\ dpos' = dpos + Len(data)
                   /\ dend' = dend + Len(data)
                   /\ drest' = SubSeq(drest, k + 1, Len(drest))
             /\ UNCHANGED <<dpc, dcount>>
          \/ /\ drest = <<>>
             /\ dbuf' = b
             /\ dpc' = "scan"
             /\ UNCHANGED <<dpos, dend, drest, dcount>>
          \/ /\ dbuf' = b
             /\ dpc' = "error"
             /\ dcount' = 0
             /\ UNCHANGED <<dpos, dend, drest>>
    /\ UNCHANGED <<ddir, dpassed, dcounts>>
    /\ UNCHANGED <<listVars, filterVars, tableVars, statVars, durVars, readVars, writeVars>>

\* The whole buffer, stale bytes included.
FilledWhole(b, end) == b

\* b[:end], the bytes the reads wrote.
Filled(b, end) == SubSeq(b, 1, end)

\* The scan of b[:end] and the return of count - 2.
DirentScan ==
    /\ dpc = "scan"
    /\ dcount' = ScanFrom(Filled(dbuf, dend), 0) - 2
    /\ dcounts' = Append(dcounts, dcount')
    /\ dpc' = "done"
    /\ UNCHANGED <<ddir, drest, dbuf, dpos, dend, dpassed>>
    /\ UNCHANGED <<listVars, filterVars, tableVars, statVars, durVars, readVars, writeVars>>

\* The next call on the same directory, opened again, with the buffer the
\* last call returned.
DirentAgain ==
    /\ dpc = "done"
    /\ Len(dcounts) < MaxCalls
    /\ dpc' = "read"
    /\ drest' = ddir
    /\ dpassed' = dbuf
    /\ dpos' = 0
    /\ dend' = 0
    /\ dcount' = 0
    /\ UNCHANGED <<ddir, dbuf, dcounts>>
    /\ UNCHANGED <<listVars, filterVars, tableVars, statVars, durVars, readVars, writeVars>>

\* An iteration that takes a record too short for an inode number for an
\* absent file and goes on.
ScanStepSkipUnread(buf, count) ==
    LET rl == direntReclen(buf)
        reclen == LEValue(rl.bytes)
    IN IF ~rl.ok \/ reclen > Len(buf)
       THEN [stop |-> TRUE, oob |-> FALSE, buf |-> buf, count |-> count]
       ELSE LET rec == SubSeq(buf, 1, reclen)
                rest == SubSeq(buf, reclen + 1, Len(buf))
                ino == direntIno(rec)
            IN IF ~ino.ok \/ IsZero(ino.bytes)
               THEN [stop |-> FALSE, oob |-> FALSE, buf |-> rest, count |-> count]
               ELSE [stop |-> FALSE, oob |-> FALSE, buf |-> rest, count |-> count + 1]

\* One iteration of the second loop on buf, not empty: stop is the break,
\* oob the panic of buf[:reclen] when reclen is beyond the bytes of buf;
\* otherwise buf and count are what the next iteration starts with.
ScanStep(buf, count) ==
    LET rl == direntReclen(buf)
        reclen == LEValue(rl.bytes)
    IN IF ~rl.ok \/ reclen > Len(buf)
       THEN [stop |-> TRUE, oob |-> FALSE, buf |-> buf, count |-> count]
       ELSE IF reclen > Len(buf)
            THEN [stop |-> TRUE, oob |-> TRUE, buf |-> buf, count |-> count]
            ELSE LET rec == SubSeq(buf, 1, reclen)
                     rest == SubSeq(buf, reclen + 1, Len(buf))
                     ino == direntIno(rec)
                 IN IF ~ino.ok
                    THEN [stop |-> TRUE, oob |-> FALSE, buf |-> rest, count |-> count]
                    ELSE IF IsZero(ino.bytes)
                         THEN [stop |-> FALSE, oob |-> FALSE, buf |-> rest,
                               count |-> count]
                         ELSE [stop |-> FALSE, oob |-> FALSE, buf |-> rest,
                               count |-> count + 1]

\* buf, what is left of b[:end] when dpos bytes of it were scanned.
ScanBuf == SubSeq(dbuf, dpos + 1, dend)

\* for buf := b[:end]; len(buf) > 0; { ... }: one iteration.
ScanIter ==
    /\ dpc = "scanning"
    /\ Len(ScanBuf) > 0
    /\ LET s == ScanStep(ScanBuf, dcount) IN
         /\ dpc' = IF s.oob THEN "panic" ELSE IF s.stop THEN "break" ELSE "scanning"
         /\ dpos' = dend - Len(s.buf)
         /\ dcount' = s.count
    /\ UNCHANGED <<ddir, drest, dbuf, dend, dpassed, dcounts>>
    /\ UNCHANGED <<listVars, filterVars, tableVars, statVars, durVars, readVars, writeVars>>

\* The loop has ended, by its condition or by a break: return count - 2.
ScanReturn ==
    /\ \/ dpc = "break"
       \/ dpc = "scanning" /\ Len(ScanBuf) = 0
    /\ dcount' = dcount - 2
    /\ dcounts' = Append(dcounts, dcount')
    /\ dpc' = "returned"
    /\ UNCHANGED <<ddir, drest, dbuf, dpos, dend, dpassed>>
    /\ UNCHANGED <<listVars, filterVars, tableVars, statVars, durVars, readVars, writeVars>>

\* Buffers of any content: up to MaxChunks chunks of 24 bytes that start
\* like a record, with any inode number and any record length (zero,
\* shorter than the inode field, shorter than the header, the chunk, more
\* than the chunk, more than the buffer), then a tail too short for a
\* record header or holding a record length beyond it.
MaxChunks == 2

ChunkSize == 24

RawReclens == {0, 7, 8, 18, 24, 25, 65535}

RawInos == {0, 5}

RawChunk(ino, reclen) ==
    LittleEndian(ino, inoSize) \o Zeros(reclenOff - inoSize)
        \o LittleEndian(reclen, reclenSize) \o Zeros(ChunkSize - reclenOff - reclenSize)

RawChunks == {RawChunk(i, r) : i \in RawInos, r \in RawReclens}

RawTails ==
    {<<>>, [j \in 1..7 |-> 1], [j \in 1..17 |-> 1], [j \in 1..18 |-> 1],
     Zeros(8)}

RECURSIVE Concat(_)
Concat(ss) == IF ss = <<>> THEN <<>> ELSE Head(ss) \o Concat(Tail(ss))

\* File names as bytes: ".", "..", "a", "bcdefgh".
DotName == <<46>>

DotDotName == <<46, 46>>

EntryNames == {<<97>>, <<98, 99, 100, 101, 102, 103, 104>>}

\* Inode numbers: 0 marks an entry that is absent; 256 has a first byte of 0.
EntryInos == {0, 5, 256}

\* Directories: "." and "..", then up to MaxDirents entries.
Dirents(n) ==
    {[j \in 1..(n + 2) |->
         IF j = 1 THEN [ino |-> 2, off |-> 1, type |-> 4, name |-> DotName]
         ELSE IF j = 2 THEN [ino |-> 1, off |-> 2, type |-> 4, name |-> DotDotName]
         ELSE [ino |-> e[j - 2].ino, off |-> j, type |-> 10, name |-> e[j - 2].name]] :
        e \in [1..n -> [ino : EntryInos, name : EntryNames]]}

\* The entries of another process's fd directory: ".", ".." and one file.
OtherDir ==
    CHOOSE d \in Dirents(1) : d[3].ino = 5 /\ d[3].name = <<97>>

\* The scratch buffers passed to the first call: nil, or l.buf as readAll
\* left it, with bytes of a file in it, or as direntCount left it on
\* another directory, with that directory's entries in it.
StaleBuffers ==
    {<<>>, [j \in 1..5 |-> 49], [j \in 1..blockSize |-> 49],
     [j \in 1..(blockSize + 24) |-> 49],
     EncodeDirents(OtherDir) \o Zeros(blockSize - Len(EncodeDirents(OtherDir)))}

----------------------------------------------------------------------------
(* time.Duration as formatDuration uses it *)

\* A duration is an int64 count of nanoseconds, up to 2562047h47m16.854775807s.
\* It is held here as hours, minutes (0..59), seconds (0..59) and nanoseconds
\* (0..999999999), so that every value of the int64 has its exact place.
Dur(h, m, s, ns) == [h |-> h, m |-> m, s |-> s, ns |-> ns]

Nanosecond == Dur(0, 0, 0, 1)

Microsecond == Dur(0, 0, 0, 1000)

Millisecond == Dur(0, 0, 0, 1000000)

Second == Dur(0, 0, 1, 0)

Minute == Dur(0, 1, 0, 0)

Hour == Dur(1, 0, 0, 0)

\* 1<<63 - 1 nanoseconds
maxDuration == Dur(2562047, 47, 16, 854775807)

NanosPerSecond == 1000000000

\* The carries from nanoseconds up to hours.
Normalize(x) ==
    LET s1 == x.s + (x.ns \div NanosPerSecond)
        m1 == x.m + (s1 \div 60)
    IN Dur(x.h + (m1 \div 60), m1 % 60, s1 % 60, x.ns % NanosPerSecond)

\* a < b
Less(a, b) ==
    \/ a.h < b.h
    \/ a.h = b.h /\ a.m < b.m
    \/ a.h = b.h /\ a.m = b.m /\ a.s < b.s
    \/ a.h = b.h /\ a.m = b.m /\ a.s = b.s /\ a.ns < b.ns

\* a + b
Add(a, b) == Normalize(Dur(a.h + b.h, a.m + b.m, a.s + b.s, a.ns + b.ns))

\* a - b, for a >= b
Sub(a, b) ==
    LET ns == a.ns - b.ns
        s == a.s - b.s - (IF ns < 0 THEN 1 ELSE 0)
        m == a.m - b.m - (IF s < 0 THEN 1 ELSE 0)
        h == a.h - b.h - (IF m < 0 THEN 1 ELSE 0)
    IN Dur(h, IF m < 0 THEN m + 60 ELSE m, IF s < 0 THEN s + 60 ELSE s,
           IF ns < 0 THEN ns + NanosPerSecond ELSE ns)

\* k * u, for the constants of formatDuration (10*time.Microsecond, ...)
Times(k, u) == Normalize(Dur(k * u.h, k * u.m, k * u.s, k * u.ns))

\* d % m, for a unit m that divides the next larger unit (the multiples of
\* formatDuration: powers of ten of nanoseconds, a second, a minute, an hour).
Rem(d, m) ==
    IF m.ns > 0 THEN Dur(0, 0, 0, d.ns % m.ns)
    ELSE IF m.s > 0 THEN Dur(0, 0, d.s % m.s, d.ns)
         ELSE IF m.m > 0 THEN Dur(0, d.m % m.m, d.s, d.ns)
              ELSE Dur(d.h % m.h, d.m, d.s, d.ns)

\* time.lessThanHalf: x + x < y
lessThanHalf(x, y) == Less(Add(x, x), y)

\* Rounding that always goes down.
RoundDown(d, m) == Sub(d, Rem(d, m))

\* Duration.Round(m) for d >= 0 and m > 0: to the nearest multiple of m,
\* halfway values away from zero; the maximum duration when the result would
\* overflow the int64 (d1 := d + m - r; d1 > d fails).
Round(d, m) ==
    LET r == Rem(d, m) IN
    IF lessThanHalf(r, m) THEN Sub(d, r)
    ELSE LET d1 == Add(Sub(d, r), m) IN
         IF Less(maxDuration, d1) THEN maxDuration ELSE d1

RECURSIVE Pow10(_)
Pow10(n) == IF n = 0 THEN 1 ELSE 10 * Pow10(n - 1)

\* The decimal digits of v, at least prec of them (leading zeros).
RECURSIVE FracDigits(_, _)
FracDigits(v, prec) ==
    IF prec = 0 THEN <<>>
    ELSE FracDigits(v \div 10, prec - 1) \o <<DigitChars[(v % 10) + 1]>>

RECURSIVE TrimZeros(_)
TrimZeros(s) ==
    IF s # <<>> /\ s[Len(s)] = "0" THEN TrimZeros(SubSeq(s, 1, Len(s) - 1)) ELSE s

\* time.fmtFrac: the fraction of v / 10^prec without trailing zeros, and
\* without the decimal point when the fraction is 0.
fmtFrac(v, prec) ==
    LET digits == TrimZeros(FracDigits(v % Pow10(prec), prec)) IN
    IF digits = <<>> THEN <<>> ELSE <<".">> \o digits

\* time.fmtInt
fmtInt(v) == FormatUint(v)

\* Duration.String for d >= 0.
String(d) ==
    IF d.h = 0 /\ d.m = 0 /\ d.s = 0
    THEN IF d.ns = 0 THEN <<"0", "s">>
         ELSE IF d.ns < 1000 THEN fmtInt(d.ns) \o <<"n", "s">>
              ELSE IF d.ns < 1000000
                   THEN fmtInt(d.ns \div 1000) \o fmtFrac(d.ns, 3) \o <<"µ", "s">>
                   ELSE fmtInt(d.ns \div 1000000) \o fmtFrac(d.ns, 6) \o <<"m", "s">>
    ELSE (IF d.h > 0 THEN fmtInt(d.h) \o <<"h">> ELSE <<>>)
         \o (IF d.h > 0 \/ d.m > 0 THEN fmtInt(d.m) \o <<"m">> ELSE <<>>)
         \o fmtInt(d.s) \o fmtFrac(d.ns, 9) \o <<"s">>

HasSuffix(s, suffix) ==
    Len(s) >= Len(suffix) /\ SubSeq(s, Len(s) - Len(suffix) + 1, Len(s)) = suffix

\* strings.TrimSuffix
TrimSuffix(s, suffix) ==
    IF HasSuffix(s, suffix) THEN SubSeq(s, 1, Len(s) - Len(suffix)) ELSE s

----------------------------------------------------------------------------
(* formatDuration *)

\* The switch of formatDuration: the multiple m that d is rounded to.
Multiple(d) ==
    IF Less(d, Microsecond) THEN Nanosecond
    ELSE IF Less(d, Times(10, Microsecond)) THEN Times(10, Nanosecond)
    ELSE IF Less(d, Times(100, Microsecond)) THEN Times(100, Nanosecond)
    ELSE IF Less(d, Millisecond) THEN Microsecond
    ELSE IF Less(d, Times(10, Millisecond)) THEN Times(10, Microsecond)
    ELSE IF Less(d, Times(100, Millisecond)) THEN Times(100, Microsecond)
    ELSE IF Less(d, Second) THEN Millisecond
    ELSE IF Less(d, Times(10, Second)) THEN Times(10, Millisecond)
    ELSE IF Less(d, Minute) THEN Times(100, Millisecond)
    ELSE IF Less(d, Hour) THEN Second
    ELSE IF Less(d, Times(1000, Hour)) THEN Minute
    ELSE Hour

\* Zero sub-units trimmed whatever the multiple is.
TrimUnitsAlways(s, m) == TrimSuffix(TrimSuffix(s, <<"0", "s">>), <<"0", "m">>)

\* if m > time.Second { s = TrimSuffix(s, "0s"); if m > time.Minute { s =
\* TrimSuffix(s, "0m") } }
TrimUnits(s, m) ==
    IF Less(Second, m)
    THEN LET s1 == TrimSuffix(s, <<"0", "s">>) IN
         IF Less(Minute, m) THEN TrimSuffix(s1, <<"0", "m">>) ELSE s1
    ELSE s

formatDuration(d) == TrimUnits(String(Round(d, Multiple(d))), Multiple(d))

\* The durations formatted: those of TestFormatDuration, the edges of the
\* magnitude bands, halfway values, whole minutes and hours, and the largest
\* durations an int64 holds.
SubSecondNanos ==
    {0, 1, 145, 999, 1000, 1004, 1005, 9994, 9995, 10000, 10049, 10050, 99949,
     99950, 100000, 100499, 100500, 999499, 999500, 1000000, 1004999, 1005000,
     9994999, 9995000, 10000000, 15000900, 15192000, 15150000, 99949999,
     99950000, 100000000, 100499999, 100500000, 999499999, 999500000,
     999999999}

SecondNanos ==
    {0, 4999999, 5000000, 49999999, 50000000, 123400100, 949999999,
     950000000, 994999999, 995000000, 999999999}

LongNanos == {0, 111000000, 499999999, 500000000, 854775807}

DurInputs ==
    {Dur(0, 0, 0, ns) : ns \in SubSecondNanos}
        \cup {Dur(0, 0, s, ns) : s \in {1, 9, 10, 58, 59}, ns \in SecondNanos}
        \cup {d \in {Dur(h, m, s, ns) :
                        h \in {0, 1, 48, 999, 1000, 1011, 2562047},
                        m \in {0, 1, 2, 10, 29, 30, 45, 47, 59},
                        s \in {0, 8, 16, 29, 30, 33, 59},
                        ns \in LongNanos} :
                 ~Less(maxDuration, d)}

FormatDuration ==
    /\ durPc = "call"
    /\ durOut' = formatDuration(durIn)
    /\ durPc' = "done"
    /\ UNCHANGED durIn
    /\ UNCHANGED <<listVars, filterVars, tableVars, statVars, direntVars, readVars, writeVars>>

----------------------------------------------------------------------------
(* lister.readAll *)

MaxFileLen == 3

MaxBufCap == 3

\* What the system calls of one readAll do: all succeed, or the positioned
\* read, the seek or the streaming read fails with an I/O error.
IOOutcomes == {"ok", "readat", "seek", "read"}

\* f.ReadAt(b, off): fills b from the file; io.EOF when the file ends before
\* b is full, nil when b was filled. A failing read returns what it read
\* before the error, here nothing.
ReadAt(file, b, off, io) ==
    IF io = "readat" THEN [n |-> 0, err |-> "EIO", b |-> b]
    ELSE LET avail == IF Len(file) > off THEN Len(file) - off ELSE 0
             n == Min(Len(b), avail)
         IN [n |-> n,
             err |-> IF n < Len(b) THEN "EOF" ELSE "nil",
             b |-> SubSeq(file, off + 1, off + n) \o SubSeq(b, n + 1, Len(b))]

\* f.Seek(0, io.SeekStart) and ioutil.ReadAll(f).
StreamAll(file, io) ==
    IF io = "seek" THEN [out |-> <<>>, err |-> "EIO"]
    ELSE IF io = "read" THEN [out |-> <<>>, err |-> "EIO"]
         ELSE [out |-> file, err |-> "nil"]

\* lister.readAll: the buffer is extended to its capacity; if it is not
\* empty one ReadAt is made, and its bytes are returned unless it ended with
\* io.EOF; otherwise the file is read from the start by ioutil.ReadAll.
readAll(buf, file, io) ==
    LET b == buf.mem IN
    IF Len(b) > 0
    THEN LET r == ReadAt(file, b, 0, io)
             filled == [len |-> Len(b), mem |-> r.b]
         IN IF r.err = "nil" \/ r.err # "EOF"
            THEN [buf |-> filled, out |-> SubSeq(r.b, 1, r.n), err |-> r.err]
            ELSE LET s == StreamAll(file, io) IN
                 [buf |-> filled, out |-> s.out, err |-> s.err]
    ELSE LET s == StreamAll(file, io) IN
         [buf |-> [len |-> 0, mem |-> b], out |-> s.out, err |-> s.err]

ReadAll ==
    /\ rpc = "call"
    /\ \E io \in IOOutcomes :
          LET r == readAll(rbuf, rfile, io) IN
            /\ rbuf' = r.buf
            /\ rout' = r.out
            /\ rerr' = r.err
    /\ rpc' = "done"
    /\ UNCHANGED rfile
    /\ UNCHANGED <<listVars, filterVars, tableVars, statVars, direntVars, durVars, writeVars>>

\* Inputs: files of up to MaxFileLen bytes, and buffers of every capacity
\* up to MaxBufCap and every length, holding the bytes of an earlier use.
FileBytes == {49, 32}

StaleByte == 255

Files == UNION {[1..n -> FileBytes] : n \in 0..MaxFileLen}

Buffers ==
    UNION {{[len |-> k, mem |-> [j \in 1..c |-> StaleByte]] : k \in 0..c} :
              c \in 0..MaxBufCap}

----------------------------------------------------------------------------
(* process.write *)

\* The list process.write ranges over: the column of each entry, the field
\* of the record it prints and the dynamic type of that field.
CellList ==
    <<[col |-> 1, field |-> "pid", type |-> "int"],
      [col |-> 2, field |-> "ppid", type |-> "int"],
      [col |-> 3, field |-> "user", type |-> "string"],
      [col |-> 4, field |-> "name", type |-> "string"],
      [col |-> 5, field |-> "pgid", type |-> "int"],
      [col |-> 6, field |-> "rss", type |-> "bytesize"],
      [col |-> 7, field |-> "uptime", type |-> "Duration"],
      [col |-> 8, field |-> "utime", type |-> "Duration"],
      [col |-> 9, field |-> "stime", type |-> "Duration"],
      [col |-> 10, field |-> "cutime", type |-> "Duration"],
      [col |-> 11, field |-> "cstime", type |-> "Duration"],
      [col |-> 12, field |-> "cpuTime", type |-> "Duration"],
      [col |-> 13, field |-> "nthreads", type |-> "int32"],
      [col |-> 14, field |-> "nfds", type |-> "int64"],
      [col |-> 15, field |-> "nchild", type |-> "int64"],
      [col |-> 16, field |-> "ndesc", type |-> "int64"],
      [col |-> 17, field |-> "cmdline", type |-> "string"]>>

\* bytesize.String, humanize.Bytes: a size below 10 bytes is printed as the
\* number and " B". The records written here have no larger size.
HumanizeBytes(n) == FormatUint(n) \o <<" ", "B">>

\* The type switch of process.write on the value of one entry.
Cell(p, e) ==
    CASE e.type = "Duration" -> formatDuration(p[e.field])
      [] e.type = "int64" -> Int64Cell(p[e.field])
      [] e.type = "bytesize" -> HumanizeBytes(p[e.field])
      [] e.type = "string" -> p[e.field]
      [] OTHER -> FormatInt(p[e.field])

\* A loop that puts each cell in front of the cells before it.
RECURSIVE WriteCellsReversed(_, _, _, _)
WriteCellsReversed(p, cols, l, k) ==
    IF k > Len(l) THEN <<>>
    ELSE IF l[k].col \in cols
         THEN WriteCellsReversed(p, cols, l, k + 1) \o <<Cell(p, l[k])>>
         ELSE WriteCellsReversed(p, cols, l, k + 1)

\* The loop of process.write over the list l, from entry k on.
RECURSIVE WriteCells(_, _, _, _)
WriteCells(p, cols, l, k) ==
    IF k > Len(l) THEN <<>>
    ELSE IF l[k].col \in cols
         THEN <<Cell(p, l[k])>> \o WriteCells(p, cols, l, k + 1)
         ELSE WriteCells(p, cols, l, k + 1)

\* process.write(tw, cols)
processWrite(p, t, cols) == append(t, WriteCells(p, cols, CellList, 1))

\* A record as list returns it, with its durations as time.Duration values
\* and its strings as bytes.
ZeroProcess ==
    [pid |-> 0, name |-> <<>>, cmdline |-> <<>>, ppid |-> 0, pgid |-> 0,
     rss |-> 0, uptime |-> Dur(0, 0, 0, 0), utime |-> Dur(0, 0, 0, 0),
     stime |-> Dur(0, 0, 0, 0), cutime |-> Dur(0, 0, 0, 0),
     cstime |-> Dur(0, 0, 0, 0), cpuTime |-> Dur(0, 0, 0, 0), nthreads |-> 0,
     nfds |-> 0, nchild |-> 0, ndesc |-> 0, user |-> <<>>]

WriteProcs ==
    {[pid |-> 7, name |-> <<"s", "h">>, cmdline |-> <<"s", "h", " ", "-", "c">>,
      ppid |-> 1, pgid |-> 6, rss |-> 8, uptime |-> Dur(3, 0, 0, 0),
      utime |-> Dur(0, 0, 0, 770000000), stime |-> Dur(0, 0, 0, 380000000),
      cutime |-> Dur(0, 0, 0, 50000000), cstime |-> Dur(0, 0, 0, 70000000),
      cpuTime |-> Dur(0, 0, 1, 270000000), nthreads |-> 3, nfds |-> -1,
      nchild |-> 2, ndesc |-> 5, user |-> <<"a", "l", "i", "c", "e">>],
     [ZeroProcess EXCEPT !.pid = 12, !.nfds = 4, !.nchild = -1]}

\* The sets of columns: one, two, all but one, all.
WriteColSets ==
    {{a, b} : a, b \in 1..numCols}
        \cup {(1..numCols) \ {a} : a \in 1..numCols}
        \cup {1..numCols}

\* for _, p := range ps { p.write(tw, cols) }
ProcessWrite ==
    /\ ~panicked
    /\ lastOp \in {"new", "pwrite"}
    /\ Len(tw.cells) <= MaxRows
    /\ \E p \in WriteProcs :
          LET r == processWrite(p, tw, wcols) IN
            /\ tw' = r.tw
            /\ panicked' = r.panic
            /\ arg' = WriteCells(p, wcols, CellList, 1)
            /\ wproc' = p
    /\ prevTW' = tw
    /\ lastOp' = "pwrite"
    /\ UNCHANGED <<out, prevOut, nwrites, wcols>>
    /\ UNCHANGED <<listVars, filterVars, statVars, direntVars, durVars, readVars>>

----------------------------------------------------------------------------
(* The components at rest *)

FilterIdle ==
    /\ flt = NoFilter
    /\ fproc = NewProcess(1)
    /\ fres = "none"

TableIdle ==
    /\ tw = [termWidth |-> 0, opts |-> <<>>, widths |-> <<>>, cells |-> <<>>]
    /\ out = <<>>
    /\ prevOut = <<>>
    /\ prevTW = tw
    /\ lastOp = "none"
    /\ arg = <<>>
    /\ nwrites = 0
    /\ panicked = FALSE

ListIdle ==
    /\ pc = "idle"
    /\ fis = <<>>
    /\ ps = <<>>
    /\ byPID = <<>>
    /\ rem = <<>>
    /\ gen = 0
    /\ ret = "none"
    /\ needTree = FALSE
    /\ needCmd = FALSE
    /\ needFDs = FALSE
    /\ loaded = <<>>
    /\ loadlog = <<>>
    /\ nopen = 0

StatIdle ==
    /\ statFile = <<>>
    /\ sin = StatInput("empty", <<>>, BaseVals, 0, <<>>, 0, <<>>)
    /\ sp = NewProcess(0)
    /\ sres = "idle"
    /\ lst = [clockTick |-> 10, pageSize |-> 4, uptime |-> 0, needCols |-> {}]

DirentIdle ==
    /\ ddir = <<>>
    /\ drest = <<>>
    /\ dbuf = <<>>
    /\ dpos = 0
    /\ dend = 0
    /\ dpc = "idle"
    /\ dcount = 0
    /\ dpassed = <<>>
    /\ dcounts = <<>>

DurIdle ==
    /\ durIn = Dur(0, 0, 0, 0)
    /\ durOut = <<>>
    /\ durPc = "idle"

ReadIdle ==
    /\ rfile = <<>>
    /\ rbuf = [len |-> 0, mem |-> <<>>]
    /\ rout = <<>>
    /\ rerr = "nil"
    /\ rpc = "idle"

WriteIdle ==
    /\ wcols = {}
    /\ wproc = ZeroProcess

TreeInit ==
    /\ pc = "fill"
    /\ fis = <<>>
    /\ \E n \in 0..MaxProcs : ps \in TreeLists(n)
    /\ byPID = <<>>
    /\ rem = <<>>
    /\ gen = 0
    /\ ret = "none"
    /\ needTree = TRUE
    /\ needCmd = FALSE
    /\ needFDs = FALSE
    /\ loaded = ps
    /\ loadlog = <<>>
    /\ nopen = 0
    /\ FilterIdle
    /\ TableIdle
    /\ StatIdle
    /\ DirentIdle
    /\ DurIdle
    /\ ReadIdle
    /\ WriteIdle

TreeNext == FillBuild \/ FillGeneration \/ FillReturn

SpecTree == TreeInit /\ [][TreeNext]_vars

----------------------------------------------------------------------------
(* Reference notions for the aggregation, stated on the parent links *)

UniquePIDs(list) ==
    \A i, j \in DOMAIN list : i # j => list[i].pid # list[j].pid

\* The record that j's ppid names, or 0 when no record of the list has it.
ParentIdx(list, j) ==
    IF \E i \in DOMAIN list : list[i].pid = list[j].ppid
    THEN CHOOSE i \in DOMAIN list : list[i].pid = list[j].ppid
    ELSE 0

\* The record reached from j by following k parent links, or 0.
RECURSIVE Ancestor(_, _, _)
Ancestor(list, j, k) ==
    IF k = 0 THEN j
    ELSE LET a == Ancestor(list, j, k - 1) IN
         IF a = 0 THEN 0 ELSE ParentIdx(list, a)

Acyclic(list) ==
    \A j \in DOMAIN list : \A k \in 1..Len(list) : Ancestor(list, j, k) # j

\* The records from which i is reached by one or more parent links.
Descendants(list, i) ==
    {j \in DOMAIN list : \E k \in 1..Len(list) : Ancestor(list, j, k) = i}

Children(list, i) == {j \in DOMAIN list : list[j].ppid = list[i].pid}

Depth(list, j) == Cardinality({k \in 1..Len(list) : Ancestor(list, j, k) # 0})

\* C1: after fillChildDesc on records with unique pids and no cycle, ndesc
\* of every record is the number of its descendants at any depth; a record
\* that is nobody's parent has ndesc 0 and the root of a connected tree has
\* ndesc = len(ps) - 1.
C1_NdescCountsDescendants ==
    (pc = "filled" /\ UniquePIDs(ps) /\ Acyclic(ps)) =>
        /\ \A i \in DOMAIN ps : ps[i].ndesc = Cardinality(Descendants(ps, i))
        /\ \A i \in DOMAIN ps : Children(ps, i) = {} => ps[i].ndesc = 0
        /\ \A i \in DOMAIN ps :
              (\A j \in DOMAIN ps : j # i => \E k \in 1..Len(ps) : Ancestor(ps, j, k) = i)
                  => ps[i].ndesc = Len(ps) - 1

\* A chain of depth two: the grandparent has one child and two descendants.
C1_Witness ==
    /\ pc = "filled"
    /\ UniquePIDs(ps)
    /\ Acyclic(ps)
    /\ \E i, j \in DOMAIN ps :
          /\ Ancestor(ps, j, 2) = i
          /\ ps[i].ndesc = 2
          /\ ps[i].nchild = 1

\* C2: after fillChildDesc on records with unique pids, nchild of every
\* record is the number of records whose ppid is its pid; a record whose
\* parent is absent adds nothing to any nchild or ndesc.
C2_NchildCountsChildren ==
    (pc = "filled" /\ UniquePIDs(ps)) =>
        /\ \A i \in DOMAIN ps : ps[i].nchild = Cardinality(Children(ps, i))
        /\ SumSeq([i \in DOMAIN ps |-> ps[i].nchild])
             = Cardinality({j \in DOMAIN ps : ParentIdx(ps, j) # 0})
        /\ SumSeq([i \in DOMAIN ps |-> ps[i].ndesc])
             = SumSeq([j \in DOMAIN ps |-> Depth(ps, j)])
        /\ (\A j \in DOMAIN ps : ParentIdx(ps, j) = 0) =>
              \A i \in DOMAIN ps : ps[i].nchild = 0 /\ ps[i].ndesc = 0

\* Two records that name an absent parent, next to a parent with a child.
C2_Witness ==
    /\ pc = "filled"
    /\ UniquePIDs(ps)
    /\ \E i, j \in DOMAIN ps :
          /\ i # j
          /\ ps[i].ppid # 0
          /\ ParentIdx(ps, i) = 0
          /\ ps[i].nchild = 0 /\ ps[i].ndesc = 0
          /\ ps[j].nchild = 1

----------------------------------------------------------------------------
(* filter.include applied to one record *)

FilterInit ==
    /\ flt \in Filters
    /\ fproc \in FilterProcs
    /\ fres = "none"
    /\ ListIdle
    /\ TableIdle
    /\ StatIdle
    /\ DirentIdle
    /\ DurIdle
    /\ ReadIdle
    /\ WriteIdle

FilterNext == FilterInclude

SpecFilter == FilterInit /\ [][FilterNext]_vars

\* C8: include returns true exactly when every requested predicate holds:
\* pid differs from thisPID, user empty or equal, name and cmd patterns nil
\* or matching, pid, ppid and pgid zero or equal.
C8_IncludeIsConjunction ==
    fres # "none" =>
        (fres = "true" <=>
            /\ fproc.pid # flt.thisPID
            /\ (flt.user = "" \/ flt.user = fproc.user)
            /\ (~flt.name.set \/ MatchString(flt.name.re, fproc.name))
            /\ (~flt.cmd.set \/ MatchString(flt.cmd.re, fproc.cmdline))
            /\ (flt.pid = 0 \/ flt.pid = fproc.pid)
            /\ (flt.ppid = 0 \/ flt.ppid = fproc.ppid)
            /\ (flt.pgid = 0 \/ flt.pgid = fproc.pgid))

\* A record rejected by the process-group predicate alone.
C8_Witness ==
    /\ fres = "false"
    /\ flt.pgid # 0
    /\ flt.pgid # fproc.pgid
    /\ fproc.pid # flt.thisPID
    /\ flt.user = fproc.user
    /\ flt.name.set /\ MatchString(flt.name.re, fproc.name)
    /\ flt.cmd.set /\ MatchString(flt.cmd.re, fproc.cmdline)
    /\ flt.pid = fproc.pid
    /\ flt.ppid = fproc.ppid

\* C9: a filter whose fields are all absent or zero includes every record,
\* and a record's pgid, ppid, name, cmdline or user does not change the
\* result when the filter's field for it is absent or zero.
C9_AbsentFieldsSatisfied ==
    fres # "none" =>
        /\ flt = NoFilter => fres = "true"
        /\ flt.pgid = 0 =>
              \A g \in 0..MaxFPid : Include(flt, [fproc EXCEPT !.pgid = g]) = (fres = "true")
        /\ flt.ppid = 0 =>
              \A b \in 0..MaxFPid : Include(flt, [fproc EXCEPT !.ppid = b]) = (fres = "true")
        /\ ~flt.name.set =>
              \A n \in ProcNames : Include(flt, [fproc EXCEPT !.name = n]) = (fres = "true")
        /\ ~flt.cmd.set =>
              \A c \in ProcCmdlines : Include(flt, [fproc EXCEPT !.cmdline = c]) = (fres = "true")
        /\ flt.user = "" =>
              \A u \in ProcUsers : Include(flt, [fproc EXCEPT !.user = u]) = (fres = "true")

\* The zero filter applied to a record with a parent, a group, an owner, a
\* name and a command line.
C9_Witness ==
    /\ fres = "true"
    /\ flt = NoFilter
    /\ fproc.ppid # 0
    /\ fproc.pgid # 0
    /\ fproc.user # ""
    /\ fproc.cmdline # <<>>

----------------------------------------------------------------------------
(* newTableWriter, then append, write and termWidth changes *)

TableInit ==
    /\ \E cols \in ColSets, width \in TermWidths : tw = newTableWriter(cols, width)
    /\ out = <<>>
    /\ prevOut = <<>>
    /\ prevTW = tw
    /\ lastOp = "new"
    /\ arg = <<>>
    /\ nwrites = 0
    /\ panicked = FALSE
    /\ ListIdle
    /\ FilterIdle
    /\ StatIdle
    /\ DirentIdle
    /\ DurIdle
    /\ ReadIdle
    /\ WriteIdle

TableNext == Append_ \/ Write_ \/ SetTermWidth

SpecTable == TableInit /\ [][TableNext]_vars

(* The layout of a row, stated position by position. *)

\* The number of characters before column j.
ColStart(t, j) == SumSeq([k \in 1..(j - 1) |-> t.widths[k] + 2])

\* The width column j takes in the row: the column's width, or for a
\* left-aligned last column the cell alone.
ColSpan(t, row, j) ==
    IF j = Len(row) /\ t.opts[j] # rightAlign THEN Len(row[j]) ELSE t.widths[j]

LayoutLen(t, row) ==
    IF Len(row) = 0 THEN 0 ELSE ColStart(t, Len(row)) + ColSpan(t, row, Len(row))

\* Whether character x of line is what the layout of row puts there.
LayoutCharOK(t, row, line, x) ==
    \E j \in 1..Len(row) :
        LET s == ColStart(t, j)
            c == row[j]
            fill == t.widths[j] - Len(c)
        IN \/ j > 1 /\ x \in {s - 1, s} /\ line[x] = " "
           \/ /\ x > s
              /\ x <= s + ColSpan(t, row, j)
              /\ IF t.opts[j] = rightAlign
                 THEN IF x - s <= fill THEN line[x] = " "
                      ELSE line[x] = c[x - s - fill]
                 ELSE IF x - s <= Len(c) THEN line[x] = c[x - s]
                      ELSE line[x] = " "

\* line is row laid out in full, followed by a newline.
IsLayout(t, row, line) ==
    /\ Len(line) = LayoutLen(t, row) + 1
    /\ line[Len(line)] = "\n"
    /\ \A x \in 1..(Len(line) - 1) : LayoutCharOK(t, row, line, x)

\* line is the first termWidth-3 characters of row's layout, then "...".
IsTrimmed(t, row, line) ==
    /\ t.termWidth > 3
    /\ Len(line) = t.termWidth + 1
    /\ line[Len(line)] = "\n"
    /\ \A x \in 1..(t.termWidth - 3) : LayoutCharOK(t, row, line, x)
    /\ \A x \in (t.termWidth - 2)..t.termWidth : line[x] = "."

\* C3: write emits one line per stored row, header first; in each line
\* every column but the first follows two spaces, a right-aligned cell is
\* left-padded to the column width, a left-aligned cell is right-padded
\* unless it is the last column. (A line longer than a terminal width above
\* 3 may be cut; what is left of it is laid out the same way.)
C3_WriteLayout ==
    lastOp = "write" =>
        /\ Len(out) = Len(tw.cells)
        /\ IsLayout(tw, tw.cells[1], out[1])
        /\ \A r \in DOMAIN out :
              IF tw.termWidth > 3 /\ LayoutLen(tw, tw.cells[r]) > tw.termWidth
              THEN IsLayout(tw, tw.cells[r], out[r]) \/ IsTrimmed(tw, tw.cells[r], out[r])
              ELSE IsLayout(tw, tw.cells[r], out[r])

\* Three columns not trimmed, with a padded right-aligned cell and a
\* left-aligned last cell shorter than its column.
C3_Witness ==
    /\ lastOp = "write"
    /\ Len(tw.opts) = 3
    /\ Len(out) = 3
    /\ tw.termWidth = 0
    /\ tw.widths[1] = 5
    /\ tw.cells[2][1] = <<"3">>
    /\ tw.cells[2][3] = <<"d">>
    /\ tw.widths[3] = 6

\* C4 (as claimed): with termWidth > 3 and a header row not longer than
\* termWidth, every later row longer than termWidth is written as its first
\* termWidth-3 characters and "...", the others unchanged, and no line is
\* longer than termWidth.
C4_TrimWhenHeaderFits ==
    (lastOp = "write" /\ tw.termWidth > 3
        /\ LayoutLen(tw, tw.cells[1]) <= tw.termWidth) =>
        \A r \in DOMAIN out :
            /\ Len(out[r]) - 1 <= tw.termWidth
            /\ IF LayoutLen(tw, tw.cells[r]) > tw.termWidth
               THEN IsTrimmed(tw, tw.cells[r], out[r])
               ELSE IsLayout(tw, tw.cells[r], out[r])

\* C5: with termWidth 0 or at most 3, or a header row longer than
\* termWidth, every line is written in full.
C5_NoTrimWhenHeaderTooWide ==
    (lastOp = "write"
        /\ (tw.termWidth <= 3 \/ LayoutLen(tw, tw.cells[1]) > tw.termWidth)) =>
        \A r \in DOMAIN out : IsLayout(tw, tw.cells[r], out[r])

\* A terminal narrower than the header, and a row wider than the header.
C5_Witness ==
    /\ lastOp = "write"
    /\ tw.termWidth > 3
    /\ LayoutLen(tw, tw.cells[1]) > tw.termWidth
    /\ \E r \in DOMAIN out :
          /\ LayoutLen(tw, tw.cells[r]) > LayoutLen(tw, tw.cells[1])
          /\ Len(out[r]) - 1 > tw.termWidth

\* C6: append with a number of cells other than the number of columns
\* panics, and only then, before any change: widths and rows are what they
\* were before the call.
C6_AppendPanicsUnchanged ==
    lastOp = "append" =>
        /\ panicked <=> Len(arg) # Len(prevTW.opts)
        /\ panicked => tw = prevTW
        /\ ~panicked => Len(tw.cells) = Len(prevTW.cells) + 1

\* A row with one cell too few, whose first cell is wider than its column.
C6_Witness ==
    /\ lastOp = "append"
    /\ panicked
    /\ Len(arg) = Len(tw.opts) - 1
    /\ Len(arg) > 0
    /\ Len(arg[1]) > tw.widths[1]
    /\ Len(tw.cells) = 2

\* C7: write changes nothing of the writer, and a second write with the
\* same termWidth and no append in between writes the same bytes.
C7_WriteIdempotent ==
    lastOp = "write" =>
        /\ tw = prevTW
        /\ nwrites = 2 => out = prevOut

\* A second write of a table one of whose rows was trimmed.
C7_Witness ==
    /\ lastOp = "write"
    /\ nwrites = 2
    /\ Len(out) = 3
    /\ \E r \in DOMAIN out : IsTrimmed(tw, tw.cells[r], out[r]) /\ ~IsLayout(tw, tw.cells[r], out[r])

----------------------------------------------------------------------------
(* lister.list, from the directory listing on *)

ListInit ==
    /\ pc = "load"
    /\ \E n \in 0..MaxEntries : fis \in Listings(n)
    /\ ps = <<>>
    /\ byPID = <<>>
    /\ rem = <<>>
    /\ gen = 0
    /\ ret = "none"
    /\ \E need \in ListNeeds :
          /\ needTree = need.tree
          /\ needCmd = need.cmd
          /\ needFDs = need.fds
    /\ loaded = <<>>
    /\ loadlog = <<>>
    /\ nopen = 0
    /\ flt \in ListFilters
    /\ fproc = NewProcess(1)
    /\ fres = "none"
    /\ TableIdle
    /\ StatIdle
    /\ DirentIdle
    /\ DurIdle
    /\ ReadIdle
    /\ WriteIdle

ListNext ==
    \/ LoadProcess
    \/ LoadDone
    \/ FillBuild
    \/ FillGeneration
    \/ FillReturn
    \/ FilterAndReturn

SpecList == ListInit /\ [][ListNext]_vars

\* C10 (as claimed): an entry whose stat, cmdline or fd read fails because
\* the process vanished, or whose stat fails parsing, is skipped: list
\* visits every entry and returns, without error, the records that were
\* loaded and that the filter includes.
C10_VanishedEntrySkipped ==
    pc = "done" =>
        /\ ret = "ok"
        /\ fis = <<>>
        /\ {ps[i].pid : i \in DOMAIN ps}
             = {loaded[i].pid : i \in {k \in DOMAIN loaded : Include(flt, loaded[k])}}

----------------------------------------------------------------------------
(* lister.parseStat on one status record *)

StatInit ==
    /\ sin \in StatInputs
    /\ statFile = StatBytes(sin)
    /\ sp = NewProcess(7)
    /\ sres = "none"
    /\ lst \in Listers
    /\ ListIdle
    /\ FilterIdle
    /\ TableIdle
    /\ DirentIdle
    /\ DurIdle
    /\ ReadIdle
    /\ WriteIdle

StatNext == ParseStat

SpecStat == StatInit /\ [][StatNext]_vars

----------------------------------------------------------------------------
(* direntCount on one directory, called again with the buffer it returned *)

DirentInit ==
    /\ \E n \in 0..MaxDirents : ddir \in Dirents(n)
    /\ drest = ddir
    /\ dbuf \in StaleBuffers
    /\ dpos = 0
    /\ dend = 0
    /\ dpc = "read"
    /\ dcount = 0
    /\ dpassed = dbuf
    /\ dcounts = <<>>
    /\ ListIdle
    /\ FilterIdle
    /\ TableIdle
    /\ StatIdle
    /\ DurIdle
    /\ ReadIdle
    /\ WriteIdle

DirentNext == DirentRead \/ DirentScan \/ DirentAgain

SpecDirent == DirentInit /\ [][DirentNext]_vars

----------------------------------------------------------------------------
(* formatDuration on one duration *)

DurInit ==
    /\ durIn \in DurInputs
    /\ durOut = <<>>
    /\ durPc = "call"
    /\ ListIdle
    /\ FilterIdle
    /\ TableIdle
    /\ StatIdle
    /\ DirentIdle
    /\ ReadIdle
    /\ WriteIdle

DurNext == FormatDuration

SpecDur == DurInit /\ [][DurNext]_vars

----------------------------------------------------------------------------
(* lister.readAll on one file *)

ReadInit ==
    /\ rfile \in Files
    /\ rbuf \in Buffers
    /\ rout = <<>>
    /\ rerr = "nil"
    /\ rpc = "call"
    /\ ListIdle
    /\ FilterIdle
    /\ TableIdle
    /\ StatIdle
    /\ DirentIdle
    /\ DurIdle
    /\ WriteIdle

ReadNext == ReadAll

SpecRead == ReadInit /\ [][ReadNext]_vars

----------------------------------------------------------------------------
(* The second loop of direntCount on a buffer of any content *)

ScanInit ==
    /\ \E n \in 0..MaxChunks : \E cs \in [1..n -> RawChunks], t \in RawTails :
          dbuf = Concat(cs) \o t
    /\ dend = Len(dbuf)
    /\ dpos = 0
    /\ dcount = 0
    /\ dpc = "scanning"
    /\ ddir = <<>>
    /\ drest = <<>>
    /\ dpassed = dbuf
    /\ dcounts = <<>>
    /\ ListIdle
    /\ FilterIdle
    /\ TableIdle
    /\ StatIdle
    /\ DurIdle
    /\ ReadIdle
    /\ WriteIdle

ScanNext == ScanIter \/ ScanReturn

\* The loop is not suspended for ever: an iteration or the return that can
\* be taken is taken.
SpecScan == ScanInit /\ [][ScanNext]_vars /\ WF_vars(ScanNext)

----------------------------------------------------------------------------
(* main: newTableWriter(cols), p.write(tw, cols) for every record, tw.write *)

WriteInit ==
    /\ wcols \in WriteColSets
    /\ wproc = ZeroProcess
    /\ tw = newTableWriter(wcols, 0)
    /\ out = <<>>
    /\ prevOut = <<>>
    /\ prevTW = tw
    /\ lastOp = "new"
    /\ arg = <<>>
    /\ nwrites = 0
    /\ panicked = FALSE
    /\ ListIdle
    /\ FilterIdle
    /\ StatIdle
    /\ DirentIdle
    /\ DurIdle
    /\ ReadIdle

WriteNext == ProcessWrite \/ Write_

SpecWrite == WriteInit /\ [][WriteNext]_vars

----------------------------------------------------------------------------
\* The kinds of record the status file should never hold.
MalformedKinds == {"empty", "short", "noopen", "noclose", "nonnum"}

\* The columns of the record with their own field in the process record are
\* the ones the record was made of.
StatFieldsSet ==
    /\ sp.name = sin.name
    /\ sp.ppid = sin.vals.ppid
    /\ sp.pgid = sin.vals.pgid
    /\ sp.nthreads = sin.vals.nthreads

\* C11 (as claimed): parseStat ends by returning nil, with the fields of the
\* record set, or by returning an error; on a malformed record (empty, no
\* '(' at column 2, no ')', a consulted column that is not a number, fewer
\* than 24 columns) it returns an error: it never panics and never reports
\* success.
C11_MalformedIsError ==
    sres # "none" =>
        /\ sres \in {"ok", "error"}
        /\ sin.kind \in MalformedKinds => sres = "error"
        /\ sres = "ok" => StatFieldsSet

\* C12: the name is the bytes between the first '(' and the last ')' of the
\* record, and for every name, with spaces and parentheses too, a record of
\* the kernel's form is accepted with the name, ppid, pgid and nthreads it
\* was made of.
C12_NameRoundTrip ==
    /\ sres = "ok" =>
          \E a, b \in DOMAIN statFile :
              /\ statFile[a] = "(" /\ \A j \in 1..(a - 1) : statFile[j] # "("
              /\ statFile[b] = ")" /\ \A j \in (b + 1)..Len(statFile) : statFile[j] # ")"
              /\ sp.name = SubSeq(statFile, a + 1, b - 1)
    /\ (sin.kind = "ok" /\ sres # "none") => (sres = "ok" /\ StatFieldsSet)

\* A name with both parentheses inside was read back, and the ppid after it.
C12_Witness ==
    /\ sres = "ok"
    /\ sin.name = <<"m", "(", "a", ")", "n">>
    /\ sp.name = sin.name
    /\ sp.ppid = 12

\* C13 (as claimed): for every start-tick value the parser accepts, the age
\* is max(0, uptime - start ticks * clock tick), and it is not negative.
C13_AgeClamped ==
    sres = "ok" =>
        LET age == lst.uptime - sin.vals.start * lst.clockTick IN
        /\ sp.uptime = (IF age < 0 THEN 0 ELSE age)
        /\ sp.uptime >= 0

\* C14: utime, stime, cutime and cstime are columns 14 to 17 times the clock
\* tick, cpuTime is their sum, rss is column 24 times the page size.
C14_TimesAndRss ==
    sres = "ok" =>
        /\ sp.utime = sin.vals.utime * lst.clockTick
        /\ sp.stime = sin.vals.stime * lst.clockTick
        /\ sp.cutime = sin.vals.cutime * lst.clockTick
        /\ sp.cstime = sin.vals.cstime * lst.clockTick
        /\ sp.cpuTime = sp.utime + sp.stime + sp.cutime + sp.cstime
        /\ sp.rss = sin.vals.pages * lst.pageSize

\* The record of TestListerParseStat: 77, 38, 5 and 7 ticks of 10ms.
C14_Witness ==
    /\ sres = "ok"
    /\ lst.clockTick = 10
    /\ sin.vals.utime = 77
    /\ sp.utime = 770
    /\ sp.cpuTime = 1270
    /\ sin.vals.pages = 60
    /\ sp.rss = 240

\* C15: when opening the fd directory fails with a permission error,
\* parseFDs returns no error and sets nfds to -1; loadProcess returns the
\* record, with the fields the other reads gave, and it is collected; its
\* nfds cell is "?".
C15_PermissionDeniedIsUnknown ==
    \A i \in DOMAIN loadlog :
        loadlog[i].fd = "eperm" =>
            /\ loadlog[i].err = "nil"
            /\ loadlog[i].p.nfds = -1
            /\ Int64Cell(loadlog[i].p.nfds) = <<"?">>
            /\ loadlog[i].p.pid = loadlog[i].fi.pid
            /\ loadlog[i].p.ppid = loadlog[i].ppid
            /\ loadlog[i].p.name # <<>>
            /\ loadlog[i].p.user # ""
            /\ needCmd => loadlog[i].p.cmdline # <<>>
            /\ \E k \in DOMAIN loaded : loaded[k] = loadlog[i].p
            /\ (ret = "ok" /\ Include(flt, loadlog[i].p)) =>
                   \E k \in DOMAIN ps : ps[k].pid = loadlog[i].p.pid /\ ps[k].nfds = -1

\* A listing that ended well with a record whose fd directory could not be
\* opened.
C15_Witness ==
    /\ ret = "ok"
    /\ \E i \in DOMAIN loadlog : loadlog[i].fd = "eperm"
    /\ \E k \in DOMAIN ps : ps[k].nfds = -1 /\ Int64Cell(ps[k].nfds) = <<"?">>

\* The entries of dir with a non-zero inode number.
Present(dir) == {k \in DOMAIN dir : dir[k].ino # 0}

\* What f.Readdirnames(-1) returns: the names of the entries with a non-zero
\* inode number, "." and ".." left out.
Readdirnames(dir) ==
    {k \in Present(dir) : dir[k].name \notin {DotName, DotDotName}}

\* C16: direntCount returns the number of entries read up to the end of the
\* directory whose inode number is not zero, minus 2; for a directory that
\* holds "." and ".." that is the number of names Readdirnames returns.
C16_CountsPresentEntries ==
    dpc = "done" =>
        /\ drest = <<>>
        /\ dcount = Cardinality(Present(ddir)) - 2
        /\ dcount = Cardinality(Readdirnames(ddir))

\* A directory with an absent entry and an entry whose inode number has a
\* zero first byte: one name is counted.
C16_Witness ==
    /\ dpc = "done"
    /\ \E k \in DOMAIN ddir : ddir[k].ino = 0
    /\ \E k \in DOMAIN ddir : ddir[k].ino = 256
    /\ dcount = 1

\* The number of leading decimal digits of s.
RECURSIVE DigitsLen(_)
DigitsLen(s) == IF s = <<>> \/ ~IsDigit(Head(s)) THEN 0 ELSE 1 + DigitsLen(Tail(s))

\* The number of leading characters of s that belong to a unit name.
RECURSIVE UnitLen(_)
UnitLen(s) ==
    IF s = <<>> \/ IsDigit(Head(s)) \/ Head(s) = "." THEN 0 ELSE 1 + UnitLen(Tail(s))

UnitDur(u) ==
    CASE u = <<"n", "s">> -> Nanosecond
      [] u = <<"µ", "s">> -> Microsecond
      [] u = <<"m", "s">> -> Millisecond
      [] u = <<"s">> -> Second
      [] u = <<"m">> -> Minute
      [] u = <<"h">> -> Hour

\* The duration a printed duration stands for (time.ParseDuration): a run of
\* decimal numbers, each with an optional fraction and a unit.
RECURSIVE ParseDuration(_)
ParseDuration(s) ==
    IF s = <<>> THEN Dur(0, 0, 0, 0)
    ELSE LET n1 == DigitsLen(s)
             ip == DigitsVal(SubSeq(s, 1, n1), 0)
             afterInt == SubSeq(s, n1 + 1, Len(s))
             hasFrac == afterInt # <<>> /\ Head(afterInt) = "."
             fs == IF hasFrac THEN Tail(afterInt) ELSE afterInt
             n2 == IF hasFrac THEN DigitsLen(fs) ELSE 0
             fv == DigitsVal(SubSeq(fs, 1, n2), 0)
             afterFrac == SubSeq(fs, n2 + 1, Len(fs))
             n3 == UnitLen(afterFrac)
             u == UnitDur(SubSeq(afterFrac, 1, n3))
             frac == IF n2 = 0 THEN 0
                     ELSE IF u.ns > 0 THEN fv * (u.ns \div Pow10(n2))
                          ELSE fv * Pow10(9 - n2)
         IN Add(Add(Times(ip, u), Dur(0, 0, 0, frac)),
                ParseDuration(SubSeq(afterFrac, n3 + 1, Len(afterFrac))))

\* The unit of the magnitude band of d, as the bands are listed.
BandUnit(d) ==
    IF d.h >= 1000 THEN Hour
    ELSE IF d.h >= 1 THEN Minute
    ELSE IF d.m >= 1 THEN Second
    ELSE IF d.s >= 10 THEN Dur(0, 0, 0, 100000000)
    ELSE IF d.s >= 1 THEN Dur(0, 0, 0, 10000000)
    ELSE IF d.ns >= 100000000 THEN Dur(0, 0, 0, 1000000)
    ELSE IF d.ns >= 10000000 THEN Dur(0, 0, 0, 100000)
    ELSE IF d.ns >= 1000000 THEN Dur(0, 0, 0, 10000)
    ELSE IF d.ns >= 100000 THEN Dur(0, 0, 0, 1000)
    ELSE IF d.ns >= 10000 THEN Dur(0, 0, 0, 100)
    ELSE IF d.ns >= 1000 THEN Dur(0, 0, 0, 10)
    ELSE Dur(0, 0, 0, 1)

\* v is a multiple of the unit u.
IsMultipleOf(v, u) ==
    IF u.ns > 0 THEN v.ns % u.ns = 0
    ELSE /\ v.ns = 0
         /\ u.s = 0 => v.s = 0
         /\ (u.s = 0 /\ u.m = 0) => v.m = 0

\* v is d rounded to the nearest multiple of u, a halfway value upwards.
IsNearestMultiple(v, d, u) ==
    LET diff == IF Less(v, d) THEN Sub(d, v) ELSE Sub(v, d) IN
    /\ IsMultipleOf(v, u)
    /\ ~Less(u, Add(diff, diff))
    /\ Add(diff, diff) = u => ~Less(v, d)

\* From this duration on, rounding up to the next whole hour leaves the
\* int64: Round returns the maximum duration.
RoundOverflows == Dur(2562047, 30, 0, 0)

WholeMinutes(v) == v.s = 0 /\ v.ns = 0 /\ (v.h > 0 \/ v.m > 0)

WholeHours(v) == v.m = 0 /\ v.s = 0 /\ v.ns = 0 /\ v.h > 0

\* C17 (as claimed): a result that is a whole number of minutes never ends
\* in "0s", and a result that is a whole number of hours never ends in "0m"
\* or "0m0s".
C17_ZeroUnitsElided ==
    durPc = "done" =>
        LET v == ParseDuration(durOut) IN
        /\ WholeMinutes(v) => ~HasSuffix(durOut, <<"0", "s">>)
        /\ WholeHours(v) => /\ ~HasSuffix(durOut, <<"0", "m">>)
                            /\ ~HasSuffix(durOut, <<"0", "m", "0", "s">>)

\* C17 (amended): the units elided are those below the multiple d is rounded
\* to. A duration of at least 1h is printed without seconds, one of at least
\* 1000h without minutes and seconds; below 1h nothing is elided, a whole
\* number of minutes ends in "0s", and below 1000h a whole number of hours
\* ends in "0m" (for durations whose rounding stays inside the int64).
C17_UnitsBelowMultipleElided ==
    (durPc = "done" /\ Less(durIn, RoundOverflows)) =>
        LET v == ParseDuration(durOut) IN
        /\ ~Less(durIn, Hour) => durOut[Len(durOut)] \in {"m", "h"}
        /\ ~Less(durIn, Times(1000, Hour)) => durOut[Len(durOut)] = "h"
        /\ Less(durIn, Hour) => durOut = String(v)
        /\ (Less(durIn, Hour) /\ WholeMinutes(v)) => HasSuffix(durOut, <<"0", "s">>)
        /\ (Less(durIn, Times(1000, Hour)) /\ ~Less(durIn, Hour) /\ WholeHours(v)) =>
               HasSuffix(durOut, <<"0", "m">>)

\* 1h10m33.111s is printed as 1h11m.
C17_Witness ==
    /\ durPc = "done"
    /\ durIn = Dur(1, 10, 33, 111000000)
    /\ durOut = <<"1", "h", "1", "1", "m">>

\* C18 (as claimed): for every duration d >= 0 the result is d rounded to the
\* nearest multiple of the unit of d's magnitude band.
C18_RoundedToBandUnit ==
    durPc = "done" => IsNearestMultiple(ParseDuration(durOut), durIn, BandUnit(durIn))

\* C18 (amended): the same for every duration below 2562047h30m, where the
\* rounded value is inside the int64; 15.0009ms is printed as 15ms, 15.192ms
\* as 15.2ms, 128.1234001s as 2m8s, 1h10m33.111s as 1h11m and 1011h45m as
\* 1012h.
C18_RoundedToBandUnitInRange ==
    (durPc = "done" /\ Less(durIn, RoundOverflows)) =>
        /\ IsNearestMultiple(ParseDuration(durOut), durIn, BandUnit(durIn))
        /\ durIn = Dur(0, 0, 0, 15000900) => durOut = <<"1", "5", "m", "s">>
        /\ durIn = Dur(0, 0, 0, 15192000) => durOut = <<"1", "5", ".", "2", "m", "s">>
        /\ durIn = Dur(0, 2, 8, 123400100) => durOut = <<"2", "m", "8", "s">>
        /\ durIn = Dur(1, 10, 33, 111000000) => durOut = <<"1", "h", "1", "1", "m">>
        /\ durIn = Dur(1011, 45, 0, 0) => durOut = <<"1", "0", "1", "2", "h">>

\* 15.192ms is printed as 15.2ms.
C18_Witness ==
    /\ durPc = "done"
    /\ durIn = Dur(0, 0, 0, 15192000)
    /\ durOut = <<"1", "5", ".", "2", "m", "s">>

\* C19 (as claimed): in the generation walk of fillChildDesc every generation
\* has strictly fewer entries than the one before it, on every input list,
\* so that the walk reaches an empty generation and the function returns.
C19_GenerationsShrink ==
    [][(pc = "walk" /\ pc' = "walk" /\ gen' = gen + 1) => Len(rem') < Len(rem)]_vars

\* On lists without a cycle in the parent links the generations do shrink,
\* and the walk is over after at most len(ps) generations.
GenerationsShrinkAcyclic ==
    (pc = "walk" /\ Acyclic(ps)) => Len(rem) + gen <= Len(ps)

\* The record of the unfiltered snapshot that has this pid.
\* The greatest length of the cells of column i, header included.
MaxCellLen(t, i) ==
    CHOOSE n \in {Len(t.cells[r][i]) : r \in DOMAIN t.cells} :
        \A r \in DOMAIN t.cells : Len(t.cells[r][i]) <= n

\* The header names of a set of columns, in the order of the column bits.
HeaderOf(cols) ==
    [i \in 1..Cardinality(cols) |-> ColConfs[ColsInOrder(cols, 1)[i]].name]

\* C22: after newTableWriter and any appends, widths[i] is the greatest of
\* the length of the header name and the lengths of the cells appended in
\* column i; no operation decreases a width; row 0 is the header row, the
\* names of the columns in canonical order.
C22_WidthsAreRunningMax ==
    /\ \A i \in DOMAIN tw.widths : tw.widths[i] = MaxCellLen(tw, i)
    /\ Len(tw.widths) = Len(prevTW.widths)
    /\ \A i \in DOMAIN tw.widths : tw.widths[i] >= prevTW.widths[i]
    /\ \E cols \in ColSets : tw.cells[1] = HeaderOf(cols)
    /\ tw.cells[1] = prevTW.cells[1]

\* Two rows were appended; a column is wider than its header because of the
\* first row, and the second row's cell is shorter than the header.
C22_Witness ==
    /\ lastOp = "append"
    /\ ~panicked
    /\ Len(tw.cells) = 3
    /\ \E i \in DOMAIN tw.widths :
          /\ tw.widths[i] = Len(tw.cells[2][i])
          /\ tw.widths[i] > Len(tw.cells[1][i])
          /\ Len(tw.cells[3][i]) < Len(tw.cells[1][i])

\* A record with its two counts put back to zero.
Uncounted(p) == [p EXCEPT !.nchild = 0, !.ndesc = 0]

\* C21: fillChildDesc changes only nchild and ndesc. While it runs and when
\* it has returned, the list has its length and order, and every record has
\* every other field (pid, ppid, pgid, name, cmdline, user, times, rss,
\* nthreads, nfds) as loadProcess left it.
C21_OnlyCountsChange ==
    pc \in {"walk", "filled"} =>
        /\ Len(ps) = Len(loaded)
        /\ \A i \in DOMAIN ps : Uncounted(ps[i]) = loaded[i]

\* fillChildDesc has returned on loaded records with names, users and fd
\* counts, one of which it gave a child and a descendant.
C21_Witness ==
    /\ pc = "filled"
    /\ Len(ps) = 2
    /\ \E i \in DOMAIN ps :
          /\ ps[i].nchild = 1 /\ ps[i].ndesc = 1
          /\ ps[i].name # <<>> /\ ps[i].user # "" /\ ps[i].nfds # 0
          /\ ps[i].cmdline # <<>>

\* C23 (as claimed): readAll returns the entire contents of the file for
\* every file size and every capacity of l.buf; the bytes returned without
\* error are never a prefix cut at the capacity of the buffer.
C23_ReadAllWholeFile ==
    (rpc = "done" /\ rerr = "nil") => rout = rfile

\* The file is returned whole when l.buf has no capacity or the file is not
\* longer than l.buf; a longer file is returned cut at the capacity.
ReadAllWholeWhenFits ==
    (rpc = "done" /\ rerr = "nil") =>
        rout = IF Len(rbuf.mem) > 0 /\ Len(rfile) > Len(rbuf.mem)
               THEN SubSeq(rfile, 1, Len(rbuf.mem)) ELSE rfile

\* The record sin with e columns after column 24 and a newline at the end.
FollowedBy(in, e) == [in EXCEPT !.kind = "ok", !.ncols = 24 + e, !.trailer = <<"\n">>]

\* C24 (as claimed): on a record whose first 24 columns are well formed
\* parseStat returns nil, for every number k >= 0 of columns after column 24,
\* and the record it fills is the same whatever follows column 24.
C24_SuccessAfterField24 ==
    (sres # "none" /\ sin.kind \in {"ok", "exact24"}) =>
        /\ sres = "ok"
        /\ sp = parseStat(lst, NewProcess(7), StatBytes(FollowedBy(sin, 1))).p

\* The same for k >= 1, and for k = 0 when a space follows column 24.
SuccessWhenField24IsFollowed ==
    (sres # "none" /\ sin.kind \in {"ok", "exact24"}
        /\ (sin.ncols > 24 \/ sin.trailer = <<" ">>)) =>
        /\ sres = "ok"
        /\ sp = parseStat(lst, NewProcess(7), StatBytes(FollowedBy(sin, 1))).p

\* The column of the status record that holds each column of the output
\* (0: none; the pid is the directory name), and the last one a set of
\* columns needs.
StatColumnOf(col) ==
    CASE col = 2 -> 4
      [] col = 4 -> 2
      [] col = 5 -> 5
      [] col = 6 -> 24
      [] col = 7 -> 22
      [] col = 8 -> 14
      [] col = 9 -> 15
      [] col = 10 -> 16
      [] col = 11 -> 17
      [] col = 12 -> 17
      [] col = 13 -> 20
      [] OTHER -> 0

LastNeeded(cols) ==
    CHOOSE n \in {StatColumnOf(c) : c \in cols} \cup {0} :
        \A c \in cols : StatColumnOf(c) <= n

\* C25 (as claimed): parseStat stops at the last column of the record that
\* needCols needs. A token after it that is not a number is not parsed and
\* gives no error, a record that ends after it is accepted, and the fields
\* of the later columns are left as they were.
C25_OnlyRequestedFields ==
    sres # "none" =>
        LET last == LastNeeded(lst.needCols) IN
        /\ (sin.kind = "nonnum" /\ sin.bad > last) => sres = "ok"
        /\ (sin.kind = "short" /\ sin.ncols > last) => sres = "ok"
        /\ (sres = "ok" /\ last < 24) => sp.rss = 0

\* What the code does: every consulted column up to 24 is parsed, whatever
\* needCols holds.
ParsesThroughField24 ==
    sres # "none" =>
        /\ sres = parseStat([lst EXCEPT !.needCols = 1..numCols], NewProcess(7), statFile).res
        /\ sp = parseStat([lst EXCEPT !.needCols = 1..numCols], NewProcess(7), statFile).p
        /\ sin.kind = "nonnum" => sres = "error"

\* C26: the count direntCount returns does not depend on the buffer passed
\* in, neither on its length nor on the bytes an earlier call left in it:
\* every call on the same directory returns the count of a scan of the
\* directory's own records, and so the same count as the call before it.
C26_CountIndependentOfBuffer ==
    /\ \A k \in DOMAIN dcounts :
          /\ dcounts[k] = dcounts[1]
          /\ dcounts[k] = ScanFrom(EncodeDirents(ddir), 0) - 2
    /\ dpc = "done" => dcount = dcounts[Len(dcounts)]

\* The second call was passed the buffer of the first, whose first record
\* still stood in it, and returned the same count, an entry being present.
C26_Witness ==
    /\ dpc = "done"
    /\ Len(dcounts) = 2
    /\ Len(dpassed) >= blockSize
    /\ SubSeq(dpassed, 1, Reclen(DotName)) = EncodeDirent(ddir[1])
    /\ dcounts[1] = 1
    /\ dcounts[2] = 1

\* The entries the reads of the running call have returned so far.
EntriesRead == SubSeq(ddir, 1, Len(ddir) - Len(drest))

\* C27: every read of the read loop is given at least blockSize free bytes
\* after the bytes already read; the buffer grows by exactly blockSize when
\* it grows; the bytes already read stay where they are; the buffer is
\* never shorter than the buffer passed in.
C27_ReadsGetABlock ==
    /\ dpc = "read" =>
          LET b == Grow(dbuf, dpos) IN
          /\ Len(b) - dpos >= blockSize
          /\ Len(b) - Len(dbuf) \in {0, blockSize}
          /\ SubSeq(b, 1, dpos) = SubSeq(dbuf, 1, dpos)
    /\ dpc \in {"read", "scan", "done"} =>
          /\ dpos = dend
          /\ dend <= Len(dbuf)
          /\ Filled(dbuf, dend) = EncodeDirents(EntriesRead)
    /\ Len(dbuf) >= Len(dpassed)
    /\ (Len(dbuf) - Len(dpassed)) % blockSize = 0

\* A buffer of one block was passed; after the first read fewer than
\* blockSize bytes were free, the buffer grew by a block and the entries of
\* the first read are still in front of those of the second.
C27_Witness ==
    /\ dpc = "read"
    /\ Len(dpassed) = blockSize
    /\ Len(dbuf) = 2 * blockSize
    /\ Len(EntriesRead) >= 2
    /\ Filled(dbuf, dend) = EncodeDirents(EntriesRead)

\* C28 (as claimed): every file loadProcess opens for a process (stat,
\* cmdline, the fd directory) is closed when loadProcess returns, with or
\* without an error: the lister holds no file open between two entries, and
\* none when list returns.
C28_FilesClosed ==
    nopen = 0

\* The files held open are the cmdline files and fd directories opened: one
\* for each call that opened its cmdline, one more for each that opened its
\* fd directory; the stat files are all closed.
HeldAreCmdlineAndFd ==
    nopen = Cardinality({k \in DOMAIN loadlog : loadlog[k].cmd = "ok"})
              + Cardinality({k \in DOMAIN loadlog : loadlog[k].fd = "ok"})

\* The field of the process record each column is named after, in the
\* order of the column constants.
ColumnFields ==
    <<"pid", "ppid", "user", "name", "pgid", "rss", "uptime", "utime", "stime",
      "cutime", "cstime", "cpuTime", "nthreads", "nfds", "nchild", "ndesc",
      "cmdline">>

\* The column whose name stands in the header at position i.
HeaderColumn(t, i) ==
    CHOOSE c \in 1..numCols : ColConfs[c].name = t.cells[1][i]

\* C29: process.write(tw, cols) on tw = newTableWriter(cols), cols not
\* empty, appends one cell for each column of cols, in the order of the
\* header: append does not panic, the row has as many cells as the header,
\* and the cell under each header name is the value of that column's field.
C29_OneCellPerColumn ==
    lastOp = "pwrite" =>
        LET row == tw.cells[Len(tw.cells)] IN
        /\ ~panicked
        /\ Len(row) = Cardinality(wcols)
        /\ Len(row) = Len(tw.cells[1])
        /\ \A i \in DOMAIN row :
              LET c == HeaderColumn(tw, i) IN
              /\ c \in wcols
              /\ row[i] = Cell(wproc, [CellList[c] EXCEPT !.field = ColumnFields[c]])

\* A record was written under the headers user and nfds, its cells the
\* user name and "?".
C29_Witness ==
    /\ lastOp = "pwrite"
    /\ ~panicked
    /\ wcols = {3, 14}
    /\ tw.cells[1] = <<ColConfs[3].name, ColConfs[14].name>>
    /\ tw.cells[2] = <<<<"a", "l", "i", "c", "e">>, <<"?">>>>

\* The record length read at the head of what is left to scan.
HeadReclen == LEValue(direntReclen(ScanBuf).bytes)

\* C30: the second loop of direntCount ends, without an access out of the
\* bytes of b[:end], for every content of the buffer. An iteration that does
\* not stop the scan consumes one whole record, of at least the size of the
\* inode field and within the bytes left; a record length of zero, shorter
\* than the inode field or larger than the bytes left stops the scan.
C30_ScanTerminates ==
    /\ [](dpc # "panic" /\ dpos <= dend)
    /\ [][dpc = "scanning" =>
            IF direntReclen(ScanBuf).ok /\ HeadReclen >= inoSize
                   /\ HeadReclen <= Len(ScanBuf)
            THEN dpc' = "scanning" /\ dpos' = dpos + HeadReclen
            ELSE dpc' \in {"break", "returned"}]_vars
    /\ <>(dpc = "returned")

\* A scan was stopped by a record length of zero after a record of eight
\* bytes was consumed and counted.
C30_Witness ==
    /\ dpc = "break"
    /\ dpos = 8
    /\ dcount = 1
    /\ direntReclen(ScanBuf).ok
    /\ HeadReclen = 0

\* The count returned is that of the scan taken as a whole.
ScanCountsAsWhole ==
    dpc = "returned" => dcount = ScanFrom(Filled(dbuf, dend), 0) - 2

LoadedIdx(pid) == CHOOSE j \in DOMAIN loaded : loaded[j].pid = pid

\* C20: list runs in three phases. While entries are loaded nothing is
\* counted or filtered; fillChildDesc runs when every entry has been loaded
\* and works on all the records loaded; the filter is applied after it. So
\* the nchild and ndesc of a record that survives count the children and
\* descendants among all the records loaded, those the filter removes too.
C20_PhasesInOrder ==
    /\ pc = "load" =>
          /\ ps = loaded
          /\ \A k \in DOMAIN ps : ps[k].nchild = 0 /\ ps[k].ndesc = 0
    /\ pc \in {"fill", "walk", "filled", "filter"} =>
          /\ fis = <<>>
          /\ ret = "none"
          /\ [k \in DOMAIN ps |-> ps[k].pid] = [k \in DOMAIN loaded |-> loaded[k].pid]
    /\ pc \in {"fill", "walk", "filled"} => needTree
    /\ (pc = "done" /\ ret = "ok" /\ needTree) =>
          \A k \in DOMAIN ps :
              /\ Include(flt, ps[k])
              /\ ps[k].nchild = Cardinality(Children(loaded, LoadedIdx(ps[k].pid)))
              /\ ps[k].ndesc = Cardinality(Descendants(loaded, LoadedIdx(ps[k].pid)))

\* A survivor whose child the filter removed still counts it.
C20_Witness ==
    /\ pc = "done"
    /\ ret = "ok"
    /\ Len(ps) = 1
    /\ Len(loaded) = 2
    /\ ps[1].nchild = 1
    /\ ps[1].ndesc = 1

====
